---- MODULE Spec2Model ----
(***************************************************************************)
(* Model of the cost-alert email pipeline (doronlevy6/Anomalies).          *)
(*                                                                         *)
(* Texts are sequences of tokens.  A token is either one character (a      *)
(* space, a newline, a digit, a filler character) or one literal of the    *)
(* program's regular expressions ("Start Date:", "Region:", ...), so that  *)
(* the regular expressions of the code are matched token by token with     *)
(* the semantics of Python's re module (leftmost match, greedy             *)
(* quantifiers, \s matching newlines, str.strip()).                        *)
(***************************************************************************)
EXTENDS Integers, Sequences, FiniteSets, TLC

VARIABLES
    mode,        \* which component the behaviour exercises
    pc,          \* position of the exercised code: "call", then "return"
    body_text,   \* split_email_by_anomalies: the body handed to the splitter
    account,     \* split_email_by_anomalies: caller-supplied [id, name]
    split_out,   \* split_email_by_anomalies: returned list
    facts,       \* the Fact Extractor's results for each returned block
    split_results, \* deduplicate_usage_types: the list handed to it
    dedup_out,     \* deduplicate_usage_types: [raised, blocks] of the first call
    dedup_again,   \* deduplicate_usage_types applied to its own output
    sender,        \* classify_email: the sender argument
    subject,       \* classify_email: the subject argument
    classification, \* classify_email: the returned dict
    id_text,        \* extract_account_id: the text argument
    id_out,         \* extract_account_id: the returned string
    llm_response,   \* the text of a drafting response, in its pieces
    parser,         \* which response parser is applied to it
    parsed,         \* the parser's outcome: [raised, value]
    reseller_body,  \* split_reseller_email: the body, as a list of segments
    reseller_out,   \* split_reseller_email: the returned list
    payload,        \* the fetched message: its headers and its body (segments)
    email_data,     \* the email record of the workflows
    orig_meta,      \* extract_original_metadata: the returned dict
    meta_input,     \* extract_original_metadata: the text handed to it
    workflow,       \* which workflow runs: "anomalies" or "alerts"
    stop_flag,      \* WorkflowContext._stop_flag
    messages,       \* number of messages the search returned
    msg_i,          \* index of the message the loop is at (0 before the first)
    active_account_id, \* the identified account id of the message
    route,          \* "reseller" or "standard" once the message is routed
    processing_queue,  \* the blocks queued for drafting
    idx,            \* index of the next queue item to draft
    drafts,         \* number of drafting calls made for the message
    labelled,       \* the messages that received the label
    cards,          \* number of cards produced so far
    outcome,        \* "running", "returned" or "raised"
    roster_source,  \* the sheet of the roster as it is on disk
    account_map,    \* the value of the global ACCOUNT_MAP
    df,             \* load_account_map: the rows it read
    row_i,          \* load_account_map: the row its loop is at
    map_before,     \* the value of ACCOUNT_MAP when the reload began
    reloads,        \* number of reloads begun
    count,          \* load_account_map: what it returned
    observed,       \* the last lookup of the workflow thread
    daily_file,     \* the rows of DAILY_FILE as they are on disk
    master_file,    \* the rows of MASTER_FILE as they are on disk
    calls,          \* export_anomaly: the call each request thread is in
    clock,          \* datetime.now(), in ticks
    lock,           \* JobManager.lock: the request holding it (0: free)
    starts,         \* start_job: the call each start request is in
    active_context, \* JobManager.active_context (0: None)
    thread,         \* JobManager.thread (0: None)
    threads,        \* the job threads: state, position, mode
    msg_queue,      \* WorkflowContext.msg_queue of each context
    put_log,        \* what each job thread has put in its queue so far
    streams         \* get_stream: the generator of each stream request

vars == <<mode, pc, body_text, account, split_out, facts,
          split_results, dedup_out, dedup_again,
          sender, subject, classification, id_text, id_out,
          llm_response, parser, parsed,
          reseller_body, reseller_out, payload, email_data, orig_meta, meta_input,
          workflow, stop_flag, messages, msg_i, active_account_id, route,
          processing_queue, idx, drafts, labelled, cards, outcome,
          roster_source, account_map, df, row_i, map_before, reloads, count, observed,
          daily_file, master_file, calls, clock,
          lock, starts, active_context, thread, threads, msg_queue, put_log, streams>>

\* the variables of the components a behaviour does not exercise
splitVars == <<body_text, account, split_out, facts>>
dedupVars == <<split_results, dedup_out, dedup_again>>
IdleSplit ==
    /\ body_text = <<>> /\ account = [id |-> "", name |-> ""] /\ split_out = <<>>
    /\ facts = <<>>
IdleDedup == split_results = <<>> /\ dedup_out = <<>> /\ dedup_again = <<>>
classVars == <<sender, subject, classification>>
IdleClass == sender = <<>> /\ subject = <<>> /\ classification = <<>>
idVars == <<id_text, id_out>>
IdleId == id_text = <<>> /\ id_out = <<>>
parseVars == <<llm_response, parser, parsed>>
IdleParse == llm_response = <<>> /\ parser = "" /\ parsed = <<>>
resellerVars == <<reseller_body, reseller_out>>
IdleReseller == reseller_body = <<>> /\ reseller_out = <<>>
fetchVars == <<payload, email_data, orig_meta, meta_input>>
IdleFetch == payload = <<>> /\ email_data = <<>> /\ orig_meta = <<>> /\ meta_input = <<>>
flowVars == <<workflow, stop_flag, messages, msg_i, active_account_id, route,
              processing_queue, idx, drafts, labelled, cards, outcome>>
IdleFlow ==
    /\ workflow = "" /\ stop_flag = FALSE /\ messages = 0 /\ msg_i = 0
    /\ active_account_id = "" /\ route = "" /\ processing_queue = <<>> /\ idx = 0
    /\ drafts = 0 /\ labelled = {} /\ cards = 0 /\ outcome = ""
rosterVars == <<roster_source, account_map, df, row_i, map_before, reloads, count, observed>>
IdleRoster ==
    /\ roster_source = <<>> /\ account_map = <<>> /\ df = <<>> /\ row_i = 0
    /\ map_before = <<>> /\ reloads = 0 /\ count = <<>> /\ observed = <<>>
exportVars == <<daily_file, master_file, calls, clock>>
IdleExport == daily_file = <<>> /\ master_file = <<>> /\ calls = <<>> /\ clock = 0
jobVars == <<lock, starts, active_context, thread, threads, msg_queue, put_log, streams>>
IdleJob ==
    /\ lock = 0 /\ starts = <<>> /\ active_context = 0 /\ thread = 0
    /\ threads = <<>> /\ msg_queue = <<>> /\ put_log = <<>> /\ streams = <<>>

----------------------------------------------------------------------------
(* Generic text helpers (Python str / re semantics on token sequences).    *)

NL == "\n"
SP == " "

\* \s of the re module, on the tokens of the model
IsWs(t) == t \in {SP, NL}

Min(a, b) == IF a < b THEN a ELSE b
Max(a, b) == IF a > b THEN a ELSE b

\* Python slice s[a:b] with 0-based a, b already clamped by the caller
Slice(s, a, b) ==
    LET lo == Max(a, 0)
        hi == Min(b, Len(s))
    IN  IF hi <= lo THEN <<>> ELSE SubSeq(s, lo + 1, hi)

\* first 1-based index >= p whose token is not whitespace (Len(s)+1 if none)
SkipWs(s, p) ==
    LET C == {q \in p..Len(s) : ~IsWs(s[q])}
    IN  IF C = {} THEN Len(s) + 1 ELSE CHOOSE q \in C : \A r \in C : q <= r

\* str.strip()
Strip(s) ==
    LET C == {q \in 1..Len(s) : ~IsWs(s[q])}
    IN  IF C = {} THEN <<>>
        ELSE SubSeq(s, CHOOSE q \in C : \A r \in C : q <= r,
                       CHOOSE q \in C : \A r \in C : q >= r)

\* 1-based index of the end of the line that contains position p
\* (the last token before the next newline, or Len(s))
LineEnd(s, p) ==
    LET C == {q \in p..Len(s) : s[q] = NL}
    IN  IF C = {} THEN Len(s) ELSE (CHOOSE q \in C : \A r \in C : q <= r) - 1

\* One attempt of  <label>\s*([^\n]+)  with the label token at position p:
\* \s* is greedy and gives characters back until [^\n]+ finds a character
\* that is not a newline.  Returns the captured group as [ok, from, to].
LabelGroupAt(s, p) ==
    LET stop == SkipWs(s, p + 1)
        \* candidates k: \s* consumed p+1..k-1, the group starts at k
        K == {k \in (p + 1)..Min(stop, Len(s)) : s[k] # NL}
    IN  IF K = {} THEN [ok |-> FALSE, from |-> 0, to |-> 0]
        ELSE LET k == CHOOSE k \in K : \A j \in K : k >= j
             IN  [ok |-> TRUE, from |-> k, to |-> LineEnd(s, k)]

\* re.search(r'<label>\s*([^\n]+)', s): the stripped group of the leftmost
\* occurrence of the label that matches, or dflt when there is none
SearchLabel(s, label, dflt) ==
    LET P == {p \in 1..Len(s) : s[p] = label /\ LabelGroupAt(s, p).ok}
    IN  IF P = {} THEN dflt
        ELSE LET p == CHOOSE p \in P : \A q \in P : p <= q
                 g == LabelGroupAt(s, p)
             IN  Strip(SubSeq(s, g.from, g.to))

\* sorted(S) for a finite set of numbers
RECURSIVE Sorted(_)
Sorted(S) ==
    IF S = {} THEN <<>>
    ELSE LET m == CHOOSE m \in S : \A x \in S : m <= x
         IN  <<m>> \o Sorted(S \ {m})

----------------------------------------------------------------------------
(* Standard Splitter: split_email_by_anomalies                             *)

SD  == "Start Date:"      \* the literal of anomaly_pattern
DT  == "2024-01-01"       \* one \d{4}-\d{2}-\d{2}
MON == "Monitoring:"
Unknown == <<"Unknown">>

\* anomaly_pattern  Start Date:\s*\d{4}-\d{2}-\d{2}  matched at position p:
\* 0 when it does not match, else the position just after the match
AnomalyMatchEnd(s, p) ==
    IF p > Len(s) \/ s[p] # SD THEN 0
    ELSE LET q == SkipWs(s, p + 1)
         IN  IF q <= Len(s) /\ s[q] = DT THEN q + 1 ELSE 0

\* [m.start() for m in re.finditer(anomaly_pattern, body_text)], scanning
\* from position p; a match is followed by a search from its end.
\* Positions are 0-based, as in the code.
RECURSIVE FindAnomalyStarts(_, _)
FindAnomalyStarts(s, p) ==
    IF p > Len(s) THEN <<>>
    ELSE LET e == AnomalyMatchEnd(s, p)
         IN  IF e = 0 THEN FindAnomalyStarts(s, p + 1)
             ELSE <<p - 1>> \o FindAnomalyStarts(s, e)

Block(account_id, account_name, text, monitor_type) ==
    [account_id |-> account_id, account_name |-> account_name,
     text_block |-> text, monitor_type |-> monitor_type]

\* plausible slip: every block runs to the end of the text
split_email_by_anomalies_ToEnd(body, account_id, account_name) ==
    LET anomaly_starts == FindAnomalyStarts(body, 1)
    IN  IF anomaly_starts = <<>>
        THEN <<Block(account_id, account_name, body, Unknown)>>
        ELSE [i \in 1..Len(anomaly_starts) |->
                LET anomaly_text == Strip(Slice(body, anomaly_starts[i], Len(body)))
                IN  Block(account_id, account_name, anomaly_text,
                          SearchLabel(anomaly_text, MON, Unknown))]

split_email_by_anomalies(body, account_id, account_name) ==
    LET anomaly_starts == FindAnomalyStarts(body, 1)
    IN  IF anomaly_starts = <<>>
        THEN <<Block(account_id, account_name, body, Unknown)>>
        ELSE [i \in 1..Len(anomaly_starts) |->
                LET start_pos == anomaly_starts[i]
                    end_pos == IF i + 1 <= Len(anomaly_starts)
                               THEN anomaly_starts[i + 1] ELSE Len(body)
                    anomaly_text == Strip(Slice(body, start_pos, end_pos))
                IN  Block(account_id, account_name, anomaly_text,
                          SearchLabel(anomaly_text, MON, Unknown))]

\* Bounds of the splitter's inputs
MaxBody == 5
BodyTok == {SD, DT, SP, NL, "x", MON}

RECURSIVE SeqsUpTo(_, _)
SeqsUpTo(S, n) ==
    IF n = 0 THEN {<<>>}
    ELSE LET R == SeqsUpTo(S, n - 1)
         IN  R \cup {Append(s, t) : s \in {r \in R : Len(r) = n - 1}, t \in S}

Bodies == SeqsUpTo(BodyTok, MaxBody)
Accounts == {[id |-> "", name |-> "Unknown"],
             [id |-> "111111111111", name |-> "Acme"]}

InitSplit ==
    /\ mode = "split"
    /\ body_text \in Bodies
    /\ account \in Accounts
    /\ pc = "call"
    /\ split_out = <<>>
    /\ facts = <<>>
    /\ IdleDedup /\ IdleClass /\ IdleId /\ IdleParse /\ IdleRoster /\ IdleExport /\ IdleJob /\ IdleReseller /\ IdleFetch /\ IdleFlow

Split ==
    /\ mode = "split"
    /\ pc = "call"
    /\ split_out' = split_email_by_anomalies(body_text, account.id, account.name)
    /\ pc' = "return"
    /\ UNCHANGED <<mode, body_text, account, facts, dedupVars, classVars, idVars, parseVars, rosterVars, exportVars, jobVars, resellerVars,
                   fetchVars, flowVars>>

NextSplit == Split

SpecSplit == InitSplit /\ [][NextSplit]_vars

----------------------------------------------------------------------------
(* Deduplicator: deduplicate_usage_types                                   *)

REG == "Region:"
USG == "Usage Type:"
IMP == "Impact Contribution:"
DOLLAR == "$"
BAR == "|"
Digits == {"0", "1", "2", "5"}
AmountChars == Digits \cup {".", ","}     \* the class [0-9.,]

DigitVal(t) == CASE t = "0" -> 0 [] t = "1" -> 1 [] t = "2" -> 2 [] t = "5" -> 5

\* re.search(r'Impact Contribution:\s*\$([0-9.,]+)', text): the group of the
\* leftmost occurrence that matches, as [ok, group]
ImpactGroupAt(s, p) ==
    LET q == SkipWs(s, p + 1)
    IN  IF q > Len(s) \/ s[q] # DOLLAR THEN <<>>
        ELSE LET E == {e \in (q + 1)..Len(s) :
                          \A j \in (q + 1)..e : s[j] \in AmountChars}
             IN  IF E = {} THEN <<>>
                 ELSE SubSeq(s, q + 1, CHOOSE e \in E : \A f \in E : e >= f)

SearchImpact(s) ==
    LET P == {p \in 1..Len(s) : s[p] = IMP /\ ImpactGroupAt(s, p) # <<>>}
    IN  IF P = {} THEN [ok |-> FALSE, group |-> <<>>]
        ELSE [ok |-> TRUE,
              group |-> ImpactGroupAt(s, CHOOSE p \in P : \A q \in P : p <= q)]

\* str.replace(',', '')
RECURSIVE RemoveCommas(_)
RemoveCommas(s) ==
    IF s = <<>> THEN <<>>
    ELSE IF Head(s) = "," THEN RemoveCommas(Tail(s))
         ELSE <<Head(s)>> \o RemoveCommas(Tail(s))

RECURSIVE DigitsToNat(_)
DigitsToNat(s) ==
    IF s = <<>> THEN 0
    ELSE 10 * DigitsToNat(SubSeq(s, 1, Len(s) - 1)) + DigitVal(s[Len(s)])

RECURSIVE Pow10(_)
Pow10(n) == IF n = 0 THEN 1 ELSE 10 * Pow10(n - 1)

\* float(text) for a text over [0-9.]: ValueError unless it has at least one
\* digit and at most one point; the value is the exact decimal num/den
Float(s) ==
    LET dots == {i \in 1..Len(s) : s[i] = "."}
        digs == SelectSeq(s, LAMBDA t : t \in Digits)
    IN  IF Cardinality(dots) > 1 \/ digs = <<>>
        THEN [error |-> TRUE, num |-> 0, den |-> 1]
        ELSE [error |-> FALSE, num |-> DigitsToNat(digs),
              den |-> IF dots = {} THEN 1
                      ELSE Pow10(Len(s) - (CHOOSE i \in dots : TRUE))]

\* a < b for two values of Float
FloatLess(a, b) == a.num * b.den < b.num * a.den

\* region / usage_type / impact_value of one block (lines 136-149)
Region(item) == SearchLabel(item.text_block, REG, <<>>)
UsageType(item) == SearchLabel(item.text_block, USG, <<>>)
ImpactValue(item) ==
    LET m == SearchImpact(item.text_block)
    IN  IF m.ok THEN Float(RemoveCommas(m.group))
        ELSE [error |-> FALSE, num |-> 0, den |-> 1]

\* lines 151-156: the block with its enrichment fields
Enrich(item) ==
    [item |-> item, region |-> Region(item), usage_type |-> UsageType(item),
     impact_value |-> ImpactValue(item)]

\* Bounds and inputs of the Deduplicator: blocks as the splitters build them,
\* a "Region:" line, a "Usage Type:" line and an "Impact Contribution: $"
\* line, each possibly absent
MaxBlocks == 3
None == <<"None">>

BlockText(region, usage, amount) ==
    (IF region = None THEN <<>> ELSE <<REG, SP>> \o region \o <<NL>>)
    \o (IF usage = None THEN <<>> ELSE <<USG, SP>> \o usage \o <<NL>>)
    \o (IF amount = None THEN <<>> ELSE <<IMP, SP, DOLLAR>> \o amount)

KeyFields == {<<<<"a">>, <<"c">>>>,
              <<<<"a", BAR, "b">>, <<"c">>>>,
              <<<<"a">>, <<"b", BAR, "c">>>>,
              <<None, None>>}
Amounts == {None, <<"2", ".", "5">>, <<"1", ",", "0">>}

\* every key with every amount; a tie ("10" against "1,0"), an amount that
\* float() rejects and a second account for the key (a, c)
DedupBlocks ==
    {Block("111111111111", "Acme", BlockText(k[1], k[2], a), Unknown) :
        k \in KeyFields, a \in Amounts}
    \cup {Block("111111111111", "Acme", BlockText(<<"a">>, <<"c">>, a), Unknown) :
        a \in {<<"1", "0">>, <<"1", ".", "2", ".", "5">>}}
    \cup {Block("222222222222", "Bolt", BlockText(<<"a">>, <<"c">>, a), Unknown) :
        a \in {<<"2", ".", "5">>, <<"1", ",", "0">>}}

\* Enrich tabulated once over the blocks of the model (the extraction is a
\* pure function of the block, and is evaluated for every block of every list)
EnrichTable == [b \in DedupBlocks |-> Enrich(b)]
Enriched(item) == IF item \in DedupBlocks THEN EnrichTable[item] ELSE Enrich(item)

\* plausible slip: the region is left out of the key
GroupKey_NoRegion(e) == <<e.item.account_id, BAR>> \o e.usage_type

\* key = f"{account_id}|{region}|{usage_type}"   (line 161)
GroupKey(e) ==
    <<e.item.account_id, BAR>> \o e.region \o <<BAR>> \o e.usage_type

\* the keys of the dict `groups`, in insertion order (lines 159-164)
RECURSIVE KeysInOrder(_, _)
KeysInOrder(ks, seen) ==
    IF ks = <<>> THEN <<>>
    ELSE IF Head(ks) \in seen THEN KeysInOrder(Tail(ks), seen)
         ELSE <<Head(ks)>> \o KeysInOrder(Tail(ks), seen \cup {Head(ks)})

\* plausible slip: the last maximum instead of the first
MaxItem_Last(group) ==
    group[CHOOSE i \in 1..Len(group) :
            /\ \A j \in 1..Len(group) :
                  ~FloatLess(group[i].impact_value, group[j].impact_value)
            /\ \A j \in (i + 1)..Len(group) :
                  FloatLess(group[j].impact_value, group[i].impact_value)]

\* max(group, key=lambda x: x['impact_value']): the first maximum
MaxItem(group) ==
    group[CHOOSE i \in 1..Len(group) :
            /\ \A j \in 1..Len(group) :
                  ~FloatLess(group[i].impact_value, group[j].impact_value)
            /\ \A j \in 1..(i - 1) :
                  FloatLess(group[j].impact_value, group[i].impact_value)]

RECURSIVE Reverse(_)
Reverse(s) == IF s = <<>> THEN <<>> ELSE Reverse(Tail(s)) \o <<Head(s)>>

\* plausible slip: the survivors are returned in reverse order
FinalResults_Reversed(enriched) ==
    LET ks == [i \in 1..Len(enriched) |-> GroupKey(enriched[i])]
        keys == KeysInOrder(ks, {})
    IN  Reverse([g \in 1..Len(keys) |->
            MaxItem(SelectSeq(enriched, LAMBDA e : GroupKey(e) = keys[g])).item])

\* lines 158-180: one survivor per group, groups in insertion order, the
\* enrichment fields removed
FinalResults(enriched) ==
    LET ks == [i \in 1..Len(enriched) |-> GroupKey(enriched[i])]
        keys == KeysInOrder(ks, {})
    IN  [g \in 1..Len(keys) |->
            MaxItem(SelectSeq(enriched, LAMBDA e : GroupKey(e) = keys[g])).item]

\* the whole function: float() raising ValueError leaves it by exception
deduplicate_usage_types(items) ==
    LET enriched_results == [i \in 1..Len(items) |-> Enriched(items[i])]
    IN  IF \E i \in 1..Len(items) : enriched_results[i].impact_value.error
        THEN [raised |-> TRUE, blocks |-> <<>>]
        ELSE [raised |-> FALSE, blocks |-> FinalResults(enriched_results)]

InitDedup ==
    /\ mode = "dedup"
    /\ pc = "call"
    /\ split_results \in SeqsUpTo(DedupBlocks, MaxBlocks)
    /\ dedup_out = <<>>
    /\ dedup_again = <<>>
    /\ IdleSplit /\ IdleClass /\ IdleId /\ IdleParse /\ IdleRoster /\ IdleExport /\ IdleJob /\ IdleReseller /\ IdleFetch /\ IdleFlow

Dedup ==
    /\ mode = "dedup"
    /\ pc = "call"
    /\ dedup_out' = deduplicate_usage_types(split_results)
    /\ pc' = "return"
    /\ UNCHANGED <<mode, split_results, dedup_again, splitVars, classVars, idVars, parseVars, rosterVars, exportVars, jobVars, resellerVars, fetchVars, flowVars>>

\* the function applied to the list it returned
DedupAgain ==
    /\ mode = "dedup"
    /\ pc = "return"
    /\ ~dedup_out.raised
    /\ dedup_again' = deduplicate_usage_types(dedup_out.blocks)
    /\ pc' = "again"
    /\ UNCHANGED <<mode, split_results, dedup_out, splitVars, classVars, idVars, parseVars, rosterVars, exportVars, jobVars, resellerVars, fetchVars, flowVars>>

NextDedup == Dedup \/ DedupAgain

SpecDedup == InitDedup /\ [][NextDedup]_vars

----------------------------------------------------------------------------
(* Fact Extractor: extract_dates, extract_regions, extract_usage_types     *)

DT2 == "2024-01-02"            \* another \d{4}-\d{2}-\d{2}
LDD == "Last Detected Date:"
EDT == "End Date:"
DateToks == {DT, DT2}

\* <label>\s*(\d{4}-\d{2}-\d{2}) with the label at position p: the date, or
\* NoDate when the pattern does not match there
NoDate == "None"
DateAfter(s, p) ==
    LET q == SkipWs(s, p + 1)
    IN  IF q <= Len(s) /\ s[q] \in DateToks THEN s[q] ELSE NoDate

\* re.search(r'(?:<labels>):\s*(\d{4}-\d{2}-\d{2})', s).group(1), or NoDate
SearchDate(s, labels) ==
    LET P == {p \in 1..Len(s) : s[p] \in labels /\ DateAfter(s, p) # NoDate}
    IN  IF P = {} THEN NoDate ELSE DateAfter(s, CHOOSE p \in P : \A q \in P : p <= q)

\* plausible slip: no fallback of the end date to the start date
extract_dates_NoFallback(text) ==
    [start |-> SearchDate(text, {SD}), end |-> SearchDate(text, {LDD, EDT})]

\* data_extractor.py lines 8-29
extract_dates(text) ==
    LET start == SearchDate(text, {SD})
        end_match == SearchDate(text, {LDD, EDT})
    IN  [start |-> start,
         end |-> IF end_match # NoDate THEN end_match ELSE start]

\* re.findall(r'<label>\s*([^\n]+)', s) scanning from position p: the
\* groups of the matches, each match followed by a search from its end
RECURSIVE FindAllLabel(_, _, _)
FindAllLabel(s, label, p) ==
    IF p > Len(s) THEN <<>>
    ELSE IF s[p] = label /\ LabelGroupAt(s, p).ok
         THEN LET g == LabelGroupAt(s, p)
              IN  <<SubSeq(s, g.from, g.to)>> \o FindAllLabel(s, label, g.to + 1)
         ELSE FindAllLabel(s, label, p + 1)

\* the loop of lines 70-73: the stripped values, without the empty ones and
\* without repetitions, in order
RECURSIVE StrippedDistinct(_, _)
StrippedDistinct(matches, seen) ==
    IF matches = <<>> THEN seen
    ELSE LET v == Strip(Head(matches))
         IN  StrippedDistinct(Tail(matches),
                 IF v # <<>> /\ \A k \in 1..Len(seen) : seen[k] # v
                 THEN Append(seen, v) ELSE seen)

\* data_extractor.py lines 59-75
extract_regions(text) == StrippedDistinct(FindAllLabel(text, REG, 1), <<>>)

\* data_extractor.py lines 78-94
extract_usage_types(text) == StrippedDistinct(FindAllLabel(text, USG, 1), <<>>)

\* Bounds and inputs: bodies of whole lines, a marker line, two end-date
\* lines, region and usage-type lines with two values each or none, and a
\* free line
MaxFactLines == 4
FactLines ==
    {<<SD, SP, DT, NL>>, <<LDD, SP, DT2, NL>>, <<EDT, SP, DT, NL>>,
     <<REG, SP, "a", NL>>, <<REG, SP, "b", NL>>, <<REG, NL>>,
     <<USG, SP, "c", NL>>, <<USG, SP, "d", NL>>,
     <<"x", NL>>}
RECURSIVE Joined(_)
Joined(lines) == IF lines = <<>> THEN <<>> ELSE Head(lines) \o Joined(Tail(lines))
FactBodies == {Joined(lines) : lines \in SeqsUpTo(FactLines, MaxFactLines)}

InitFacts ==
    /\ mode = "facts"
    /\ pc = "call"
    /\ body_text \in FactBodies
    /\ account = [id |-> "111111111111", name |-> "Acme"]
    /\ split_out = <<>>
    /\ facts = <<>>
    /\ IdleDedup /\ IdleClass /\ IdleId /\ IdleParse /\ IdleRoster /\ IdleExport /\ IdleJob /\ IdleReseller /\ IdleFetch /\ IdleFlow

\* the Standard Splitter on the body
SplitForFacts ==
    /\ mode = "facts"
    /\ pc = "call"
    /\ split_out' = split_email_by_anomalies(body_text, account.id, account.name)
    /\ pc' = "split"
    /\ UNCHANGED <<mode, body_text, account, facts, dedupVars, classVars, idVars, parseVars, rosterVars, exportVars, jobVars,
                   resellerVars, fetchVars, flowVars>>

\* the Fact Extractor on each block alone
ExtractFacts ==
    /\ mode = "facts"
    /\ pc = "split"
    /\ facts' = [k \in 1..Len(split_out) |->
                    [dates |-> extract_dates(split_out[k].text_block),
                     regions |-> extract_regions(split_out[k].text_block),
                     usage_types |-> extract_usage_types(split_out[k].text_block)]]
    /\ pc' = "return"
    /\ UNCHANGED <<mode, body_text, account, split_out, dedupVars, classVars, idVars, parseVars, rosterVars, exportVars, jobVars,
                   resellerVars, fetchVars, flowVars>>

NextFacts == SplitForFacts \/ ExtractFacts

SpecFacts == InitFacts /\ [][NextFacts]_vars

----------------------------------------------------------------------------
(* Classifier: classify_email                                              *)

\* Python's None: for a missing sender or subject (texts are sequences),
\* and for the label fields (strings)
PyNone == <<"None">>
NoLabel == "None"

\* The words of subjects and senders.  A token is a phrase; Lower is
\* str.lower() on it and Within(m, t) says whether the marker m is a
\* substring of the lowered phrase t.
SubjectTok == {"Cost Anomaly", "AWS Budgets", "aws budget", "RI Utilization",
               "AWS Free Tier", "Hello"}
SenderTok == {"budgets@costalerts.amazonaws.com", "Budgets@CostAlerts.amazonaws.com",
              "freetier@costalerts.amazonaws.com", "alerts@x.com"}

Lower(t) ==
    CASE t = "Cost Anomaly" -> "cost anomaly"
      [] t = "AWS Budgets" -> "aws budgets"
      [] t = "RI Utilization" -> "ri utilization"
      [] t = "AWS Free Tier" -> "aws free tier"
      [] t = "Hello" -> "hello"
      [] t = "Budgets@CostAlerts.amazonaws.com" -> "budgets@costalerts.amazonaws.com"
      [] OTHER -> t

Within(m, t) == m = t \/ (m = "aws budget" /\ t = "aws budgets")

\* sender.lower() if sender else ""   (lines 15-16)
LowerOrEmpty(x) ==
    IF x = PyNone \/ x = <<>> THEN <<>> ELSE [i \in 1..Len(x) |-> Lower(x[i])]

\* the operator `in` of str: the marker lies within the text
In(m, text) == \E i \in 1..Len(text) : Within(m, text[i])

Result(family, label, color) ==
    [family |-> family, label |-> label, label_color |-> color]

Budget(subject_lower) ==
    IF In("ri utilization", subject_lower)
    THEN Result("ri_utilization_alert", "budget", "#fb4934")
    ELSE Result("budget_notification", "budget", "#fb4934")

\* plausible slip: the sender fallbacks are tried before the free-tier subject
classify_email_SenderFirst(sender_arg, subject_arg) ==
    LET sender_lower == LowerOrEmpty(sender_arg)
        subject_lower == LowerOrEmpty(subject_arg)
    IN  IF In("cost anomaly", subject_lower)
        THEN Result("cost_anomaly", "fetched", "#16a765")
        ELSE IF In("aws budget", subject_lower) \/ In("aws budgets", subject_lower)
        THEN Budget(subject_lower)
        ELSE IF In("budgets@costalerts.amazonaws.com", sender_lower)
        THEN Budget(subject_lower)
        ELSE IF In("aws free tier", subject_lower)
        THEN Result("free_tier", "freetier", "#00bcd4")
        ELSE IF In("freetier@costalerts.amazonaws.com", sender_lower)
        THEN Result("free_tier", "freetier", "#00bcd4")
        ELSE Result("unknown", NoLabel, NoLabel)

classify_email(sender_arg, subject_arg) ==
    LET sender_lower == LowerOrEmpty(sender_arg)
        subject_lower == LowerOrEmpty(subject_arg)
    IN  IF In("cost anomaly", subject_lower)
        THEN Result("cost_anomaly", "fetched", "#16a765")
        ELSE IF In("aws budget", subject_lower) \/ In("aws budgets", subject_lower)
        THEN Budget(subject_lower)
        ELSE IF In("aws free tier", subject_lower)
        THEN Result("free_tier", "freetier", "#00bcd4")
        ELSE IF In("budgets@costalerts.amazonaws.com", sender_lower)
        THEN Budget(subject_lower)
        ELSE IF In("freetier@costalerts.amazonaws.com", sender_lower)
        THEN Result("free_tier", "freetier", "#00bcd4")
        ELSE Result("unknown", NoLabel, NoLabel)

MaxSubject == 3
MaxSender == 2

InitClassify ==
    /\ mode = "classify"
    /\ pc = "call"
    /\ sender \in SeqsUpTo(SenderTok, MaxSender) \cup {PyNone}
    /\ subject \in SeqsUpTo(SubjectTok, MaxSubject) \cup {PyNone}
    /\ classification = <<>>
    /\ IdleSplit /\ IdleDedup /\ IdleId /\ IdleParse /\ IdleRoster /\ IdleExport /\ IdleJob /\ IdleReseller /\ IdleFetch /\ IdleFlow

Classify ==
    /\ mode = "classify"
    /\ pc = "call"
    /\ classification' = classify_email(sender, subject)
    /\ pc' = "return"
    /\ UNCHANGED <<mode, sender, subject, splitVars, dedupVars, idVars, parseVars, rosterVars, exportVars, jobVars, resellerVars, fetchVars, flowVars>>

NextClassify == Classify

SpecClassify == InitClassify /\ [][NextClassify]_vars

----------------------------------------------------------------------------
(* Account Identifier: extract_account_id                                  *)
(* Here a text is a sequence of single characters.                         *)

DigitChars == {"0", "1", "2", "3", "4", "5", "6", "7", "8", "9"}
SepChars == {"-", " "}                    \* the class [- ]
WordChars == DigitChars \cup {"a", "_"}   \* \w, for the characters of the model

\* \b before the 1-based position p (p = Len(s)+1: at the end of the text)
WordBoundary(s, p) ==
    LET before == p > 1 /\ s[p - 1] \in WordChars
        after == p <= Len(s) /\ s[p] \in WordChars
    IN  before # after

\* \d{n} at position p: the position after it, or 0
DigitsAt(s, p, n) ==
    IF p # 0 /\ p + n - 1 <= Len(s) /\ \A i \in p..(p + n - 1) : s[i] \in DigitChars
    THEN p + n ELSE 0

\* [- ]? at position p (greedy; giving the separator back never helps,
\* because a digit must follow)
OptSep(s, p) == IF p # 0 /\ p <= Len(s) /\ s[p] \in SepChars THEN p + 1 ELSE p

\* \b\d{3}[- ]?\d{3}[- ]?\d{3}[- ]?\d{3}\b at position p: the position after
\* the match, or 0
GroupedMatchEnd(s, p) ==
    LET e1 == DigitsAt(s, p, 3)
        e2 == DigitsAt(s, OptSep(s, e1), 3)
        e3 == DigitsAt(s, OptSep(s, e2), 3)
        e4 == DigitsAt(s, OptSep(s, e3), 3)
    IN  IF WordBoundary(s, p) /\ e4 # 0 /\ WordBoundary(s, e4) THEN e4 ELSE 0

\* \b\d{12}\b at position p
SimpleMatchEnd(s, p) ==
    LET e == DigitsAt(s, p, 12)
    IN  IF WordBoundary(s, p) /\ e # 0 /\ WordBoundary(s, e) THEN e ELSE 0

\* match.group(0).replace('-', '').replace(' ', '')
RemoveSeps(s) == SelectSeq(s, LAMBDA c : c \notin SepChars)

\* plausible slip: the separators are left in the returned string
extract_account_id_KeepSeps(text) ==
    IF text = PyNone \/ text = <<>> THEN <<>>
    ELSE LET P == {p \in 1..Len(text) : GroupedMatchEnd(text, p) # 0}
         IN  IF P # {}
             THEN LET p == CHOOSE p \in P : \A q \in P : p <= q
                  IN  SubSeq(text, p, GroupedMatchEnd(text, p) - 1)
             ELSE <<>>

extract_account_id(text) ==
    IF text = PyNone \/ text = <<>> THEN <<>>
    ELSE LET P == {p \in 1..Len(text) : GroupedMatchEnd(text, p) # 0}
             Q == {p \in 1..Len(text) : SimpleMatchEnd(text, p) # 0}
         IN  IF P # {}
             THEN LET p == CHOOSE p \in P : \A q \in P : p <= q
                  IN  RemoveSeps(SubSeq(text, p, GroupedMatchEnd(text, p) - 1))
             ELSE IF Q # {}
             THEN LET p == CHOOSE p \in Q : \A q \in Q : p <= q
                  IN  SubSeq(text, p, SimpleMatchEnd(text, p) - 1)
             ELSE <<>>

\* Inputs: a text is  pre . number . mid . number . post, a number being
\* written with any of the separators after each group of three digits,
\* or written in groups of four, or absent
MaxPad == 1
PadChars == {"a", "7", " ", "-"}
IdA == <<"1","2","3","4","5","6","7","8","9","0","1","2">>
IdB == <<"2","1","0","9","8","7","6","5","4","3","2","1">>
Seps == {<<>>, <<"-">>, <<" ">>}

Written(id, s1, s2, s3) ==
    SubSeq(id, 1, 3) \o s1 \o SubSeq(id, 4, 6) \o s2 \o SubSeq(id, 7, 9) \o s3
    \o SubSeq(id, 10, 12)

FirstNumbers ==
    {Written(IdA, s1, s2, s3) : s1 \in Seps, s2 \in Seps, s3 \in Seps}
    \cup {<<>>, SubSeq(IdA, 1, 4) \o <<"-">> \o SubSeq(IdA, 5, 8) \o <<"-">>
                \o SubSeq(IdA, 9, 12)}
SecondNumbers == {<<>>, IdB, Written(IdB, <<"-">>, <<"-">>, <<"-">>)}
Mids == {<<" ">>, <<"a">>, <<"-">>}

IdTexts ==
    {pre \o n1 \o mid \o n2 \o post :
        pre \in SeqsUpTo(PadChars, MaxPad), n1 \in FirstNumbers, mid \in Mids,
        n2 \in SecondNumbers, post \in SeqsUpTo(PadChars, MaxPad)}
    \cup {<<>>, PyNone}

InitExtractId ==
    /\ mode = "extract_id"
    /\ pc = "call"
    /\ id_text \in IdTexts
    /\ id_out = <<>>
    /\ IdleParse /\ IdleRoster /\ IdleExport /\ IdleJob
    /\ IdleSplit /\ IdleDedup /\ IdleClass /\ IdleReseller /\ IdleFetch /\ IdleFlow

ExtractId ==
    /\ mode = "extract_id"
    /\ pc = "call"
    /\ id_out' = extract_account_id(id_text)
    /\ pc' = "return"
    /\ UNCHANGED <<mode, id_text, parseVars, rosterVars, exportVars, jobVars, splitVars, dedupVars, classVars, resellerVars, fetchVars, flowVars>>

NextExtractId == ExtractId

SpecExtractId == InitExtractId /\ [][NextExtractId]_vars

----------------------------------------------------------------------------
(* Response parsers: parse_llm_response, parse_budget_llm_response,        *)
(* parse_freetier_llm_response                                             *)
(*                                                                         *)
(* A response text is a sequence of tokens: the punctuation of JSON, two   *)
(* strings, two numbers, words of prose, the two fences, blanks and        *)
(* newlines.  DEEP is a run of "[" longer than the interpreter's recursion *)
(* limit and BIGINT a run of digits longer than its limit for the          *)
(* conversion of an integer.                                               *)

LB == "{"
RB == "}"
LS == "["
RS == "]"
COMMA == ","
COLON == ":"
KA == "\"a\""
KB == "\"b\""
FO == "<fence>json"    \* three backquotes and json
FC == "<fence>"        \* three backquotes
DEEP == "<100000 [>"
BIGINT == "<5000 digits>"
JsonStrings == {KA, KB}
JsonScalars == JsonStrings \cup {"1", "2"}

\* a parsed value: a scalar is its token, a list has its items, an object
\* has its members in insertion order, a member being its key with its value
Node(type, items) == [type |-> type, items |-> items]
Scalar(tok) == Node(tok, <<>>)
PyList(items) == Node("list", items)
PyDict(members) == Node("object", members)
Member(key, val) == Node(key, <<val>>)
EmptyObject == PyDict(<<>>)

\* d[key] = val on a dict: a repeated key keeps its place and takes the
\* later value
DictSet(members, key, val) ==
    IF \E k \in 1..Len(members) : members[k].type = key
    THEN [k \in 1..Len(members) |->
            IF members[k].type = key THEN Member(key, val) ELSE members[k]]
    ELSE Append(members, Member(key, val))

\* outcomes of the decoder: a value and the position after it, or the
\* exception it raises
Decoded(val, next) == [st |-> "ok", val |-> val, next |-> next]
Raises(exc) == [st |-> exc, val |-> EmptyObject, next |-> 0]

\* the JSON decoder on the tokens t (blanks removed) from position p
RECURSIVE ParseValue(_, _), ParseElements(_, _, _), ParseMembers(_, _, _)
ParseValue(t, p) ==
    IF p > Len(t) THEN Raises("JSONDecodeError")
    ELSE IF t[p] \in JsonScalars THEN Decoded(Scalar(t[p]), p + 1)
    ELSE IF t[p] = DEEP THEN Raises("RecursionError")
    ELSE IF t[p] = BIGINT THEN Raises("ValueError")
    ELSE IF t[p] = LS
         THEN IF p + 1 <= Len(t) /\ t[p + 1] = RS THEN Decoded(PyList(<<>>), p + 2)
              ELSE ParseElements(t, p + 1, <<>>)
    ELSE IF t[p] = LB
         THEN IF p + 1 <= Len(t) /\ t[p + 1] = RB THEN Decoded(EmptyObject, p + 2)
              ELSE ParseMembers(t, p + 1, <<>>)
    ELSE Raises("JSONDecodeError")

ParseElements(t, p, acc) ==
    LET v == ParseValue(t, p)
    IN  IF v.st # "ok" THEN v
        ELSE IF v.next <= Len(t) /\ t[v.next] = COMMA
             THEN ParseElements(t, v.next + 1, Append(acc, v.val))
        ELSE IF v.next <= Len(t) /\ t[v.next] = RS
             THEN Decoded(PyList(Append(acc, v.val)), v.next + 1)
        ELSE Raises("JSONDecodeError")

ParseMembers(t, p, acc) ==
    IF p + 1 > Len(t) \/ t[p] \notin JsonStrings \/ t[p + 1] # COLON
    THEN Raises("JSONDecodeError")
    ELSE LET v == ParseValue(t, p + 2)
         IN  IF v.st # "ok" THEN v
             ELSE IF v.next <= Len(t) /\ t[v.next] = COMMA
                  THEN ParseMembers(t, v.next + 1, DictSet(acc, t[p], v.val))
             ELSE IF v.next <= Len(t) /\ t[v.next] = RB
                  THEN Decoded(PyDict(DictSet(acc, t[p], v.val)), v.next + 1)
             ELSE Raises("JSONDecodeError")

\* json.loads(s): one value, blanks around the tokens allowed, nothing
\* after it
json_loads(s) ==
    LET t == SelectSeq(s, LAMBDA c : ~IsWs(c))
        v == ParseValue(t, 1)
    IN  IF v.st = "ok" /\ v.next <= Len(t) THEN Raises("JSONDecodeError") ELSE v

\* re.sub(r'^<fence>json\s*|\s*<fence>$', '', s, flags=re.MULTILINE) from position
\* p: an opening fence at the start of a line goes with the blanks after
\* it, a closing fence at the end of a line with the blanks before it
RECURSIVE Unfence(_, _)
Unfence(s, p) ==
    IF p > Len(s) THEN <<>>
    ELSE IF s[p] = FO /\ (p = 1 \/ s[p - 1] = NL) THEN Unfence(s, SkipWs(s, p + 1))
    ELSE LET q == SkipWs(s, p)
         IN  IF q <= Len(s) /\ s[q] = FC /\ (q = Len(s) \/ s[q + 1] = NL)
             THEN Unfence(s, q + 1)
             ELSE <<s[p]>> \o Unfence(s, p + 1)

\* re.search(r'\[[\s\S]*\]', s) and re.search(r'\{[\s\S]*\}', s): from the
\* first opening token (DEEP opens a list) to the last closing token after
\* it; <<>> without a match
Bracketed(s, open, close) ==
    LET I == {i \in 1..Len(s) : s[i] = open \/ (open = LS /\ s[i] = DEEP)}
        i == CHOOSE i \in I : \A k \in I : i <= k
        J == {j \in 1..Len(s) : s[j] = close /\ j > i}
    IN  IF I = {} \/ J = {} THEN <<>>
        ELSE SubSeq(s, i, CHOOSE j \in J : \A k \in J : j >= k)

Returned(val) == [raised |-> "", value |-> val]
Raised(exc) == [raised |-> exc, value |-> EmptyObject]

\* the fallback of a parser: the first region that is found is decoded, and
\* whatever the decoder raises there is swallowed
RecoveredParse(regions) ==
    LET found == SelectSeq(regions, LAMBDA r : r # <<>>)
    IN  IF found = <<>> THEN Returned(EmptyObject)
        ELSE LET v == json_loads(found[1])
             IN  IF v.st = "ok" THEN Returned(v.val) ELSE Returned(EmptyObject)

\* the common frame: only json.JSONDecodeError of the first decoding leads
\* to the fallback
Parse(text, brackets) ==
    LET clean_text == Unfence(Strip(text), 1)
        v == json_loads(clean_text)
    IN  IF v.st = "ok" THEN Returned(v.val)
        ELSE IF v.st # "JSONDecodeError" THEN Raised(v.st)
        ELSE RecoveredParse([k \in 1..Len(brackets) |->
                                Bracketed(clean_text, brackets[k][1], brackets[k][2])])

\* llm_engine.py lines 171-189 (anomalies_logic.py lines 553-571): a list
\* is looked for first, then an object
parse_llm_response(text) ==
    Parse(text, <<<<LS, RS>>, <<LB, RB>>>>)

\* budget_llm_engine.py lines 132-144 (freetier_llm_engine.py lines 119-131,
\* alerts_logic.py lines 95-104): an object only
parse_budget_llm_response(text) ==
    Parse(text, <<<<LB, RB>>>>)

\* Bounds and inputs: a response is a payload, possibly in a fence and
\* possibly with prose before and after it
MaxJunk == 3
JunkTok == {LB, RB, LS, RS, COMMA, KA}
JsonPayloads ==
    {<<LB, KA, COLON, "1", RB>>,
     <<LB, KA, COLON, LS, "1", COMMA, "2", RS, RB>>,
     <<LB, KA, COLON, LS, "1", RS, COMMA, KB, COLON, LS, "2", RS, RB>>,
     <<LB, KA, COLON, LB, KB, COLON, "1", RB, RB>>,
     <<LB, KA, COLON, "1", COMMA, KA, COLON, "2", RB>>,
     <<LS, LB, KA, COLON, "1", RB, COMMA, LB, KA, COLON, "2", RB, RS>>,
     <<LB, KA, COLON, "1">>,
     <<LB, KA, COLON, RB>>,
     <<DEEP>>,
     <<BIGINT>>,
     <<LB, KA, COLON, BIGINT, RB>>}
    \cup SeqsUpTo(JunkTok, MaxJunk)
Prose == {<<>>, <<"Here", SP>>, <<"Here", NL>>}
ProseAfter == {<<>>, <<SP, "bye">>, <<NL, "bye">>}
LlmResponses ==
    [pre : Prose, open : {<<>>, <<FO, NL>>}, payload : JsonPayloads,
     close : {<<>>, <<NL, FC>>}, post : ProseAfter]
ResponseText(r) == r.pre \o r.open \o r.payload \o r.close \o r.post

InitParse ==
    /\ mode = "parse"
    /\ pc = "call"
    /\ llm_response \in LlmResponses
    /\ parser \in {"parse_llm_response", "parse_budget_llm_response"}
    /\ parsed = <<>>
    /\ IdleSplit /\ IdleDedup /\ IdleClass /\ IdleId /\ IdleReseller /\ IdleFetch /\ IdleFlow
    /\ IdleRoster /\ IdleExport /\ IdleJob

ParseResponse ==
    /\ mode = "parse"
    /\ pc = "call"
    /\ parsed' = IF parser = "parse_llm_response"
                 THEN parse_llm_response(ResponseText(llm_response))
                 ELSE parse_budget_llm_response(ResponseText(llm_response))
    /\ pc' = "return"
    /\ UNCHANGED <<mode, llm_response, parser, splitVars, dedupVars, classVars, idVars,
                   resellerVars, fetchVars, flowVars, rosterVars, exportVars, jobVars>>

NextParse == ParseResponse

SpecParse == InitParse /\ [][NextParse]_vars

----------------------------------------------------------------------------
(* Reseller Splitter: split_reseller_email                                 *)
(*                                                                         *)
(* The windows of this function are measured in characters, so here a body *)
(* is a sequence of segments, each a run of whole lines of a known kind    *)
(* and width; positions are character offsets as in the code.              *)
(*   row  "Start Date: ...\n" with a "Total Impact: ...\n" line, one of     *)
(*        the optional lines of row_pattern                                *)
(*   svc  "AWS Service: ...\n"                                             *)
(*   mem  "Member Account: <12 digits> (<name>)\n"  (member_pattern)       *)
(*   imp  "Impact Contribution: $<amount>\n"                               *)
(*   mon  "Name: ..\nType: ..\nMonitoring: ..\n"                           *)
(*   pad  other text                                                       *)
(*   reg  "Region: ...\n",  usg  "Usage Type: ...\n"                       *)
(*   line a free line with its newline,  text  free text without one       *)

LookBack == 200          \* body_text[max(0, member_pos-200):member_pos]
LookAhead == 400         \* body_text[member_pos:member_pos+400]
DefaultForward == 200    \* block_end = member_pos + 200

TOT  == "Total Impact: $100.00"
SVC  == "AWS Service:"
MEM  == "Member Account:"
FILL == "<149 characters>"   \* a run of 149 characters that no pattern matches

\* number of characters of a token: the tokens are the text itself, except
\* FILL; every token that is not listed is a single character
TokWidth(t) ==
    CASE t \in {SD, USG, MON} -> 11
      [] t = DT -> 10
      [] t = TOT -> 21
      [] t = SVC -> 12
      [] t = MEM -> 15
      [] t = IMP -> 20
      [] t = REG -> 7
      [] t \in {"Name:", "Type:", "From:", "Date:", "Sent:", "Alice"} -> 5
      [] t = "To:" -> 3
      [] t = "Reply-To:" -> 9
      [] t = "Subject:" -> 8
      [] t = "Forwarded message" -> 17
      [] t = "----------" -> 10
      [] t \in {"111111111111", "222222222222", "262674733103",
                "Cost anomaly"} -> 12
      [] t \in {"a@x.com", "b@x.com", "SERVICE"} -> 7
      [] t = "Lambda" -> 6
      [] t \in {"Acme", "Bolt"} -> 4
      [] t \in {"Mon", "Bob", "for"} -> 3
      [] t = "Hi" -> 2
      [] t = FILL -> 149
      [] t = "<999 characters>" -> 999
      [] t = "<8000 characters>" -> 8000
      [] t \in {"--- ANOMALY CONTEXT ---", "--- MONITOR INFO ---"}
           -> IF t = "--- MONITOR INFO ---" THEN 20 ELSE 23
      [] t = "--- ACCOUNT DATA ---" -> 20
      [] OTHER -> 1

RECURSIVE Width(_)
Width(s) == IF s = <<>> THEN 0 ELSE TokWidth(Head(s)) + Width(Tail(s))

\* a segment: its kind, the account id of a member anchor, and the text
\* that varies (the name of a member anchor, the amount of an impact line,
\* the value of a monitor, the tokens of a free line)
Seg(kind, id, val) == [kind |-> kind, id |-> id, val |-> val]

\* the tokens of a segment, its newline included
SegTokens(seg) ==
    CASE seg.kind = "row" -> <<SD, SP, DT, NL, TOT, NL>>
      [] seg.kind = "svc" -> <<SVC, SP, "Lambda", NL>>
      [] seg.kind = "mem" -> <<MEM, SP, seg.id, SP, "(">> \o seg.val \o <<")", NL>>
      [] seg.kind = "reg" -> <<REG, SP>> \o seg.val \o <<NL>>
      [] seg.kind = "usg" -> <<USG, SP>> \o seg.val \o <<NL>>
      [] seg.kind = "imp" -> <<IMP, SP, DOLLAR>> \o seg.val \o <<NL>>
      [] seg.kind = "mon" -> <<"Name:", SP, "m", NL, "Type:", SP, "t", NL, MON, SP>>
                             \o seg.val \o <<NL>>
      [] seg.kind = "pad" -> <<FILL, NL>>
      [] seg.kind = "line" -> seg.val \o <<NL>>
      [] seg.kind = "text" -> seg.val

\* characters of a segment
SegWidth(seg) == Width(SegTokens(seg))

\* characters of the match of a pattern at the start of a segment: the
\* member anchor and the impact line without their newline
MatchWidth(seg) == SegWidth(seg) - 1
\* the shortest text the impact pattern matches: "Impact Contribution: $"
\* and one character of the amount
ImpactMinWidth == TokWidth(IMP) + 3

\* offset of the first character of segment i (i may be Len(body) + 1)
RECURSIVE SegStart(_, _)
SegStart(body, i) ==
    IF i <= 1 THEN 0 ELSE SegStart(body, i - 1) + SegWidth(body[i - 1])

BodyLen(body) == SegStart(body, Len(body) + 1)

KindAt(body, kind) == {i \in 1..Len(body) : body[i].kind = kind}

MinOf(S) == CHOOSE m \in S : \A x \in S : m <= x
MaxOf(S) == CHOOSE m \in S : \A x \in S : m >= x

\* plausible slip: the first row of the body that begins before the anchor
RowBefore_First(body, member_pos) ==
    LET R == {r \in KindAt(body, "row") : SegStart(body, r) < member_pos}
    IN  IF R = {} THEN 0 ELSE MinOf(R)

\* lines 26-34: the last row that starts before the member anchor (0: none)
RowBefore(body, member_pos) ==
    LET R == {r \in KindAt(body, "row") : SegStart(body, r) < member_pos}
    IN  IF R = {} THEN 0 ELSE MaxOf(R)

\* plausible slip: the block always starts at the member anchor
BlockStart_AtAnchor(body, member_pos) == member_pos

\* lines 38-43: re.search finds the first "AWS Service:" line of the
\* lookback window
BlockStart(body, member_pos) ==
    LET lo == Max(0, member_pos - LookBack)
        S == {j \in KindAt(body, "svc") :
                 SegStart(body, j) >= lo /\ SegStart(body, j) < member_pos}
    IN  IF S # {} THEN SegStart(body, MinOf(S)) ELSE member_pos

\* lines 46-51: the end of the first impact line that the lookahead window
\* holds at least the beginning of, the amount cut at the window's end
BlockEnd(body, member_pos) ==
    LET hi == Min(member_pos + LookAhead, BodyLen(body))
        I == {j \in KindAt(body, "imp") :
                 SegStart(body, j) >= member_pos
                 /\ SegStart(body, j) + ImpactMinWidth <= hi}
    IN  IF I # {}
        THEN Min(SegStart(body, MinOf(I)) + MatchWidth(body[MinOf(I)]), hi)
        ELSE member_pos + DefaultForward

\* lines 57-61
RowEnd(body, member_pos) ==
    LET R == {r \in KindAt(body, "row") : SegStart(body, r) > member_pos}
    IN  IF R = {} THEN BodyLen(body) ELSE SegStart(body, MinOf(R))

\* lines 64-70: the first monitor triplet of body_text[row_start:row_end]
MonitorIn(body, row_start, row_end) ==
    LET Mn == {j \in KindAt(body, "mon") :
                  SegStart(body, j) >= row_start
                  /\ SegStart(body, j) + SegWidth(body[j]) <= row_end}
    IN  IF Mn = {} THEN 0 ELSE MinOf(Mn)

\* final_text: the row context, the characters [from, to) of the body as
\* account data, and the monitor info (segment indices; 0 for none)
ResellerText(context, from, to, monitor) ==
    [context |-> context, from |-> from, to |-> to, monitor |-> monitor]

\* plausible slip: the members of one account are reported once
split_reseller_email_OncePerId(body) ==
    LET matches == Sorted({m \in KindAt(body, "mem") :
                             \A n \in KindAt(body, "mem") :
                                 body[n].id = body[m].id => m <= n})
    IN  [i \in 1..Len(matches) |->
            LET member_pos == SegStart(body, matches[i])
                row == RowBefore(body, member_pos)
                row_start == IF row = 0 THEN 0 ELSE SegStart(body, row)
                mon == MonitorIn(body, row_start, RowEnd(body, member_pos))
            IN  Block(body[matches[i]].id, Strip(body[matches[i]].val),
                      ResellerText(row, BlockStart(body, member_pos),
                                   Min(BlockEnd(body, member_pos), BodyLen(body)), mon),
                      IF mon = 0 THEN Unknown ELSE body[mon].val)]

split_reseller_email(body) ==
    LET matches == Sorted(KindAt(body, "mem"))
    IN  [i \in 1..Len(matches) |->
            LET member_pos == SegStart(body, matches[i])
                row == RowBefore(body, member_pos)
                row_start == IF row = 0 THEN 0 ELSE SegStart(body, row)
                mon == MonitorIn(body, row_start, RowEnd(body, member_pos))
            IN  Block(body[matches[i]].id, Strip(body[matches[i]].val),
                      ResellerText(row, BlockStart(body, member_pos),
                                   Min(BlockEnd(body, member_pos), BodyLen(body)), mon),
                      IF mon = 0 THEN Unknown ELSE body[mon].val)]

MaxSegs == 5
Segs == {Seg("row", "", <<>>), Seg("svc", "", <<>>),
         Seg("imp", "", <<"2", ".", "5">>),
         Seg("mon", "", <<"SERVICE">>), Seg("pad", "", <<>>),
         Seg("mem", "111111111111", <<"Acme">>),
         Seg("mem", "222222222222", <<SP, "Bolt", SP>>)}

InitReseller ==
    /\ mode = "reseller"
    /\ pc = "call"
    /\ reseller_body \in SeqsUpTo(Segs, MaxSegs)
    /\ reseller_out = <<>>
    /\ IdleSplit /\ IdleDedup /\ IdleClass /\ IdleId /\ IdleParse /\ IdleRoster /\ IdleExport /\ IdleJob /\ IdleFetch /\ IdleFlow

SplitReseller ==
    /\ mode = "reseller"
    /\ pc = "call"
    /\ reseller_out' = split_reseller_email(reseller_body)
    /\ pc' = "return"
    /\ UNCHANGED <<mode, reseller_body, splitVars, dedupVars, classVars, idVars, parseVars, rosterVars, exportVars, jobVars, fetchVars, flowVars>>

NextReseller == SplitReseller

SpecReseller == InitReseller /\ [][NextReseller]_vars

----------------------------------------------------------------------------
(* Metadata Recovery: extract_original_metadata, and the node of the       *)
(* workflows that builds the email record and overlays the recovered       *)
(* fields on it.  A body is a list of segments; the function reads its     *)
(* tokens, the two windows of the detection are measured in characters.    *)

FWD == "Forwarded message"
HUGE == "<8000 characters>"   \* a run of 8000 characters that no pattern matches
BIG == "<999 characters>"     \* a run of 999 characters that no pattern matches

FwdWindow == 2000        \* "Forwarded message" in body_text[:2000]
FromWindow == 1000       \* "From:" in body_text[:1000]
BodyLimit == 8000        \* 'bodyText': body_text[:8000]

\* the tokens of a body
RECURSIVE Flat(_)
Flat(body) == IF body = <<>> THEN <<>> ELSE SegTokens(Head(body)) \o Flat(Tail(body))

\* a token of which a slice keeps only a part: a fragment that no pattern
\* matches
CUT == "~"

\* Python slice s[a:b] of a text, a and b in characters
RECURSIVE CharSlice(_, _, _)
CharSlice(s, a, b) ==
    IF s = <<>> \/ b <= 0 THEN <<>>
    ELSE LET w == TokWidth(Head(s))
             rest == CharSlice(Tail(s), a - w, b - w)
         IN  IF w <= a THEN rest
             ELSE IF a <= 0 /\ w <= b THEN <<Head(s)>> \o rest
             ELSE <<CUT>> \o rest

\* lit in s[:limit]
InFirst(lit, s, limit) ==
    \E p \in 1..Len(s) :
        s[p] = lit /\ Width(SubSeq(s, 1, p - 1)) + TokWidth(lit) <= limit

\* the patterns are not anchored to the start of a line: a label is found
\* at the end of a longer word too
EndsWith(t, label) ==
    \/ t = label
    \/ label = "To:" /\ t = "Reply-To:"
    \/ label = "Date:" /\ t = SD

\* One attempt of  <label>\s*(.*?)\n  with the label ending the token at p:
\* \s* is greedy and crosses newlines; (.*?) then runs to the next newline.
\* When no newline follows, \s* gives characters back down to its last
\* newline and the group is empty.  Returns [ok, group].
HeaderGroupAt(s, p) ==
    LET stop == SkipWs(s, p + 1)
        N == {q \in stop..Len(s) : s[q] = NL}
        B == {q \in (p + 1)..(stop - 1) : s[q] = NL}
    IN  IF N # {}
        THEN [ok |-> TRUE,
              group |-> SubSeq(s, stop, (CHOOSE q \in N : \A r \in N : q <= r) - 1)]
        ELSE [ok |-> B # {}, group |-> <<>>]

\* re.search(r'<label>\s*(.*?)\n', s) for any of the labels: the leftmost
\* occurrence that matches, as [ok, group]
SearchHeader(s, labels) ==
    LET P == {p \in 1..Len(s) : (\E l \in labels : EndsWith(s[p], l))
                                /\ HeaderGroupAt(s, p).ok}
    IN  IF P = {} THEN [ok |-> FALSE, group |-> <<>>]
        ELSE HeaderGroupAt(s, CHOOSE p \in P : \A q \in P : p <= q)

\* str.strip(chars)
StripChars(s, chars) ==
    LET C == {q \in 1..Len(s) : s[q] \notin chars}
    IN  IF C = {} THEN <<>>
        ELSE SubSeq(s, CHOOSE q \in C : \A r \in C : q <= r,
                       CHOOSE q \in C : \A r \in C : q >= r)

\* position of the first "<" of s (Len(s) + 1 when there is none)
FirstAngle(s) ==
    LET C == {q \in 1..Len(s) : s[q] = "<"}
    IN  IF C = {} THEN Len(s) + 1 ELSE CHOOSE q \in C : \A r \in C : q <= r

\* lines 63-69 and 78-84: 'Name <address>' or a bare value
Sender(raw) ==
    IF \E q \in 1..Len(raw) : raw[q] = "<"
    THEN LET i == FirstAngle(raw)
             rest == SubSeq(raw, i + 1, Len(raw))
         IN  [fromName |-> StripChars(SubSeq(raw, 1, i - 1), {SP, "\""}),
              fromAddress |-> StripChars(SubSeq(rest, 1, FirstAngle(rest) - 1), {">"})]
    ELSE [fromName |-> raw, fromAddress |-> raw]

EmptyDict == [k \in {} |-> <<>>]

\* dict.update
Update(d, u) ==
    [k \in DOMAIN d \cup DOMAIN u |-> IF k \in DOMAIN u THEN u[k] ELSE d[k]]

\* plausible slip: the "From:" line is preferred to the "To:" line
extract_original_metadata_FromFirst(text) ==
    IF ~(InFirst(FWD, text, FwdWindow) \/ InFirst("From:", text, FromWindow))
    THEN EmptyDict
    ELSE LET to_match == SearchHeader(text, {"To:"})
             from_match == SearchHeader(text, {"From:"})
             date_match == SearchHeader(text, {"Date:", "Sent:"})
             sub_match == SearchHeader(text, {"Subject:"})
             sender_part == IF from_match.ok THEN Sender(Strip(from_match.group))
                            ELSE IF to_match.ok THEN Sender(Strip(to_match.group))
                            ELSE EmptyDict
             date_part == IF date_match.ok
                          THEN [k \in {"date"} |-> Strip(date_match.group)]
                          ELSE EmptyDict
             sub_part == IF sub_match.ok
                         THEN [k \in {"subject"} |-> Strip(sub_match.group)]
                         ELSE EmptyDict
         IN  Update(Update(sender_part, date_part), sub_part)

extract_original_metadata(text) ==
    IF ~(InFirst(FWD, text, FwdWindow) \/ InFirst("From:", text, FromWindow))
    THEN EmptyDict
    ELSE LET to_match == SearchHeader(text, {"To:"})
             from_match == SearchHeader(text, {"From:"})
             date_match == SearchHeader(text, {"Date:", "Sent:"})
             sub_match == SearchHeader(text, {"Subject:"})
             sender_part == IF to_match.ok THEN Sender(Strip(to_match.group))
                            ELSE IF from_match.ok THEN Sender(Strip(from_match.group))
                            ELSE EmptyDict
             date_part == IF date_match.ok
                          THEN [k \in {"date"} |-> Strip(date_match.group)]
                          ELSE EmptyDict
             sub_part == IF sub_match.ok
                         THEN [k \in {"subject"} |-> Strip(sub_match.group)]
                         ELSE EmptyDict
         IN  Update(Update(sender_part, date_part), sub_part)

\* email_data['bodyText'] as the segments of body_text[:8000]
RECURSIVE TruncSegs(_, _)
TruncSegs(body, limit) ==
    IF body = <<>> \/ limit <= 0 THEN <<>>
    ELSE LET w == SegWidth(Head(body))
         IN  IF w <= limit
             THEN <<Head(body)>> \o TruncSegs(Tail(body), limit - w)
             ELSE <<Seg("text", "", CharSlice(SegTokens(Head(body)), 0, limit))>>

\* a fetched message: the From, Subject and Date headers, the text/plain
\* parts decoded and concatenated (body), the text/html parts (html) and
\* the snippet (<<>> when the message has none); body, html and snippet are
\* sequences of segments
Message(from, subj, date, body, html, snippet) ==
    [from |-> from, subject |-> subj, date |-> date, body |-> body,
     html |-> html, snippet |-> snippet]

\* a message with a plain-text part only
Payload(from, subj, date, body) == Message(from, subj, date, body, <<>>, <<>>)

\* clean_html (email_processing.py lines 5-13): the markup and the script
\* and style elements are dropped, the lines that remain are joined with
\* newlines (none after the last), and the text is cut at 8000 characters
Markup == {"tag", "script"}
clean_html(html_content) ==
    LET kept == SelectSeq(html_content, LAMBDA seg : seg.kind \notin Markup)
        last == IF kept = <<>> THEN <<>> ELSE SegTokens(kept[Len(kept)])
        text == IF kept = <<>> THEN <<>>
                ELSE SubSeq(kept, 1, Len(kept) - 1)
                     \o <<Seg("text", "", IF last[Len(last)] = NL
                                          THEN SubSeq(last, 1, Len(last) - 1)
                                          ELSE last)>>
    IN  TruncSegs(text, BodyLimit)

\* body_text of the workflows after the Body Normalizer (anomalies_logic.py
\* lines 905-907, alerts_logic.py lines 351-353)
BodyOf(m) ==
    IF m.body # <<>> THEN m.body
    ELSE IF m.html # <<>> THEN clean_html(m.html)
    ELSE m.snippet

\* the record built from the headers (anomalies_logic.py lines 909-916)
EmailData(m) ==
    [id |-> <<"m">>,
     fromName |-> StripChars(SubSeq(m.from, 1, FirstAngle(m.from) - 1), {SP, "\""}),
     fromAddress |-> m.from,
     subject |-> m.subject,
     bodyText |-> CharSlice(Flat(BodyOf(m)), 0, BodyLimit),
     date |-> m.date]

\* Inputs of the metadata node: forwarded-header lines in any order, a
\* row of an anomaly, a long filler and, at the end of the body only, a
\* line without its newline
MaxMetaSegs == 3
Line(val) == Seg("line", "", val)
MetaSegs ==
    {Line(<<"----------", SP, FWD, SP, "----------">>),
     Line(<<"From:", SP, "Alice", SP, "<", "a@x.com", ">">>),
     Line(<<"To:", SP, "\"", "Bob", "\"", SP, "<", "b@x.com", ">">>),
     Line(<<"To:", SP, "<", "b@x.com", ">">>),
     Line(<<"To:", SP, "b@x.com">>),
     Line(<<"To:">>),
     Line(<<"Reply-To:", SP, "a@x.com">>),
     Line(<<"Date:", SP, "Mon">>),
     Line(<<"Subject:", SP, "Hi">>),
     Line(<<"Subject:">>),
     Seg("text", "", <<"Subject:", SP, "Hi">>),
     Seg("row", "", <<>>),
     Line(<<BIG>>),
     Line(<<HUGE>>)}

MetaBodies ==
    {body \in SeqsUpTo(MetaSegs, MaxMetaSegs) :
        \A i \in 1..(Len(body) - 1) : body[i].kind # "text"}

HeaderFrom == <<"Carol", SP, "<", "c@x.com", ">">>

\* messages without a text/plain part: an HTML part (markup around the
\* lines, a script element only, a long text) and a snippet, each or none
HtmlBodies ==
    {<<Seg("tag", "", <<"<p>">>), Line(<<"From:", SP, "Alice", SP, "<", "a@x.com", ">">>),
       Line(<<"Subject:", SP, "Hi">>), Seg("tag", "", <<"</p>">>)>>,
     <<Seg("script", "", <<"<script>", "x", "</script>">>)>>,
     <<Line(<<HUGE>>), Seg("tag", "", <<"<p>">>), Line(<<"Subject:", SP, "Hi">>)>>}
Snippets == {<<>>, <<Seg("text", "", <<"Subject:", SP, "Hi">>)>>}
HtmlMessages ==
    {Message(HeaderFrom, <<"Fwd">>, <<"Tue">>, <<>>, html, snippet) :
        html \in HtmlBodies \cup {<<>>}, snippet \in Snippets}

InitMeta ==
    /\ mode = "meta"
    /\ pc = "call"
    /\ payload \in {Payload(HeaderFrom, <<"Fwd">>, <<"Tue">>, body) :
                       body \in MetaBodies} \cup HtmlMessages
    /\ email_data = <<>>
    /\ orig_meta = <<>>
    /\ meta_input = <<>>
    /\ IdleSplit /\ IdleDedup /\ IdleClass /\ IdleId /\ IdleParse /\ IdleRoster /\ IdleExport /\ IdleJob /\ IdleReseller /\ IdleFlow

\* Node: Fetch Content and Metadata Extraction (anomalies_logic.py lines
\* 909-923): the record is built from the headers, then the recovered
\* fields are overlaid on it
FetchContent ==
    /\ mode = "meta"
    /\ pc = "call"
    /\ meta_input' = Flat(BodyOf(payload))
    /\ orig_meta' = extract_original_metadata(meta_input')
    /\ email_data' = Update(EmailData(payload), orig_meta')
    /\ pc' = "return"
    /\ UNCHANGED <<mode, payload, splitVars, dedupVars, classVars, idVars, parseVars, rosterVars, exportVars, jobVars, resellerVars,
                   flowVars>>

NextMeta == FetchContent

SpecMeta == InitMeta /\ [][NextMeta]_vars

----------------------------------------------------------------------------
(* The workflows: run_anomalies_workflow and run_alerts_workflow.          *)
(*                                                                         *)
(* One action per stretch of code between two tests of the stop flag,      *)
(* which another thread sets at any moment (request_stop).  The contents   *)
(* of a message are drawn when it is fetched; the locals of an iteration   *)
(* are cleared when the loop moves on to the next message.                 *)

ResellerId == "262674733103"     \* is_reseller = (active_account_id == '262674733103')
IdTokens == {"111111111111", "222222222222", ResellerId}
Labels == {SD, USG, MON, SVC, MEM, IMP, REG, "Name:", "Type:", "From:", "To:",
           "Reply-To:", "Date:", "Sent:", "Subject:"}
Letters == {"x", "m", "t", "a", "b", "c"}

\* the characters of a token, for the Account Identifier; a run of letters
\* is reduced to one letter
TokChars(t) ==
    IF t = "111111111111" THEN [k \in 1..12 |-> "1"]
    ELSE IF t = "222222222222" THEN [k \in 1..12 |-> "2"]
    ELSE IF t = ResellerId THEN <<"2", "6", "2", "6", "7", "4", "7", "3", "3", "1", "0", "3">>
    ELSE IF t = DT THEN <<"2", "0", "2", "4", "-", "0", "1", "-", "0", "1">>
    ELSE IF t = TOT THEN <<"a", ":", " ", "$", "1", "0", "0", ".", "0", "0">>
    ELSE IF t = "----------" THEN <<"-", "-">>
    ELSE IF t \in Labels THEN <<"a", ":">>
    ELSE IF TokWidth(t) > 1 \/ t \in Letters THEN <<"a">>
    ELSE <<t>>

RECURSIVE Chars(_)
Chars(s) == IF s = <<>> THEN <<>> ELSE TokChars(Head(s)) \o Chars(Tail(s))

\* the string of 12 digits that the Account Identifier returned, as a token
AsToken(c) ==
    IF c = <<>> THEN ""
    ELSE IF \E t \in IdTokens : TokChars(t) = c
         THEN CHOOSE t \in IdTokens : TokChars(t) = c
         ELSE "other"

AccountIdOf(text) == AsToken(extract_account_id(Chars(text)))

\* anomalies_logic.py line 929: the subject first, the body as fallback
\* alerts_logic.py line 371: the body first, the subject as fallback
Identify(wf, data) ==
    LET from_subject == AccountIdOf(data.subject)
        from_body == AccountIdOf(data.bodyText)
    IN  IF wf = "anomalies"
        THEN (IF from_subject # "" THEN from_subject ELSE from_body)
        ELSE (IF from_body # "" THEN from_body ELSE from_subject)

\* ACCOUNT_MAP: the roster
ACCOUNT_MAP == [a \in {"111111111111"} |-> [accountName |-> <<"Acme">>, pocName |-> <<"Dana">>]]

\* ACCOUNT_MAP.get(id, {}).get('accountName', 'Unknown')
AccountName(id) == IF id \in DOMAIN ACCOUNT_MAP THEN ACCOUNT_MAP[id].accountName ELSE Unknown

\* final_text of split_reseller_email (splitting_logic.py lines 65-73), as
\* tokens
FinalText(body, t) ==
    <<"--- ANOMALY CONTEXT ---", NL>>
    \o (IF t.context = 0 THEN <<>> ELSE Strip(SegTokens(body[t.context])))
    \o <<NL, NL, "--- ACCOUNT DATA ---", NL>>
    \o Strip(CharSlice(Flat(body), t.from, t.to))
    \o (IF t.monitor = 0 THEN <<>>
        ELSE <<NL, NL, "--- MONITOR INFO ---", NL, "Name:", SP, "m", NL,
               "Type:", SP, "t", NL, MON, SP>> \o Strip(body[t.monitor].val))

WithText(body, blocks) ==
    [k \in 1..Len(blocks) |->
        [blocks[k] EXCEPT !.text_block = FinalText(body, blocks[k].text_block)]]

\* lines 961-966 and 979-984
Queue(blocks) ==
    [k \in 1..Len(blocks) |->
        [account_id |-> blocks[k].account_id, account_name |-> blocks[k].account_name,
         text_block |-> blocks[k].text_block]]

\* the shapes of a drafting response after parse_llm_response, and the
\* number of items each yields (lines 1026-1031): an object, a list of two
\* objects, nothing usable ({} or a value that is neither dict nor list), a
\* list of two numbers, an object whose "urgency" is a number
Responses == {"object", "list", "none", "numbers", "urgency"}
Items(r) ==
    CASE r = "object" -> 1 [] r = "list" -> 2 [] r = "none" -> 0
      [] r = "numbers" -> 2 [] r = "urgency" -> 1

\* Node: Card Generation (lines 1041-1057): item.get of line 1042 raises
\* AttributeError for an item that is not an object, and so does
\* urgency.lower() of generate_html_card (line 657) for a number
CardRaises(r) == r \in {"numbers", "urgency"}

\* Bounds and inputs of the workflows
MaxMsgs == 2
MaxFlowSegs == 2
FlowSegs ==
    {Seg("row", "", <<>>),
     Seg("mem", "111111111111", <<"Acme">>),
     Seg("mem", "222222222222", <<SP, "Bolt", SP>>),
     Seg("imp", "", <<"2", ".", "5">>),
     Line(<<FWD, NL, "Subject:", SP, "Cost anomaly", SP, "for", SP, "222222222222">>)}
Subjects ==
    {<<"Cost anomaly">>,
     <<"Cost anomaly", SP, "for", SP, "111111111111">>,
     <<"Cost anomaly", SP, "for", SP, ResellerId>>}
FlowPayloads ==
    {Payload(HeaderFrom, subj, <<"Tue">>, body) :
        subj \in Subjects, body \in SeqsUpTo(FlowSegs, MaxFlowSegs)}

InitFlow ==
    /\ mode = "flow"
    /\ pc = "start"
    /\ workflow \in {"anomalies", "alerts"}
    /\ stop_flag = FALSE
    /\ messages = 0
    /\ msg_i = 0
    /\ active_account_id = ""
    /\ route = ""
    /\ processing_queue = <<>>
    /\ idx = 0
    /\ drafts = 0
    /\ labelled = {}
    /\ cards = 0
    /\ outcome = "running"
    /\ IdleSplit /\ IdleDedup /\ IdleClass /\ IdleId /\ IdleParse /\ IdleRoster /\ IdleExport /\ IdleJob /\ IdleReseller /\ IdleFetch

\* WorkflowContext.request_stop, from the thread of the web server
RequestStop ==
    /\ mode = "flow"
    /\ outcome = "running"
    /\ ~stop_flag
    /\ stop_flag' = TRUE
    /\ UNCHANGED <<mode, pc, workflow, messages, msg_i, active_account_id, route,
                   processing_queue, idx, drafts, labelled, cards, outcome,
                   splitVars, dedupVars, classVars, idVars, parseVars, rosterVars, exportVars, jobVars, resellerVars, fetchVars>>

\* what a step of the workflow leaves alone besides the variables it names
perMessage == <<active_account_id, route, processing_queue, idx,
                splitVars, dedupVars, resellerVars, fetchVars>>

\* run_anomalies_workflow lines 864-888: the stop tests, the two
\* authentications (a failure is raised to the caller) and the search
StartAnomalies ==
    /\ mode = "flow" /\ workflow = "anomalies" /\ pc = "start"
    /\ \/ /\ stop_flag
          /\ outcome' = "returned" /\ pc' = "done"
          /\ UNCHANGED messages
       \/ /\ ~stop_flag
          /\ outcome' = "raised" /\ pc' = "done"
          /\ UNCHANGED messages
       \/ /\ ~stop_flag
          /\ \E n \in 0..MaxMsgs : messages' = n
          /\ pc' = "loop"
          /\ UNCHANGED outcome
    /\ UNCHANGED <<mode, workflow, stop_flag, msg_i, drafts, labelled, cards,
                   perMessage, classVars, idVars, parseVars, rosterVars, exportVars, jobVars>>

\* run_alerts_workflow lines 318-339: a failure of the setup returns []
StartAlerts ==
    /\ mode = "flow" /\ workflow = "alerts" /\ pc = "start"
    /\ \/ /\ outcome' = "returned" /\ pc' = "done"
          /\ UNCHANGED messages
       \/ /\ ~stop_flag
          /\ \E n \in 0..MaxMsgs : messages' = n
          /\ pc' = "loop"
          /\ UNCHANGED outcome
    /\ UNCHANGED <<mode, workflow, stop_flag, msg_i, drafts, labelled, cards,
                   perMessage, classVars, idVars, parseVars, rosterVars, exportVars, jobVars>>

\* the loop ends, or a stop test breaks it (lines 893-895 and 925 of
\* anomalies_logic.py, line 344 of alerts_logic.py): return cards
Finish ==
    /\ mode = "flow"
    /\ \/ pc = "loop" /\ (msg_i = messages \/ stop_flag)
       \/ pc = "fetched" /\ stop_flag
    /\ outcome' = "returned"
    /\ pc' = "done"
    /\ UNCHANGED <<mode, workflow, stop_flag, messages, msg_i, drafts, labelled, cards,
                   perMessage, classVars, idVars, parseVars, rosterVars, exportVars, jobVars>>

\* for i, msg in enumerate(messages), and the stop test at the head of the
\* loop body (line 893, line 344): the loop moves on to the next message
NextMessage ==
    /\ mode = "flow" /\ pc = "loop"
    /\ msg_i < messages /\ ~stop_flag
    /\ msg_i' = msg_i + 1
    /\ drafts' = 0
    /\ active_account_id' = "" /\ route' = "" /\ processing_queue' = <<>> /\ idx' = 0
    /\ body_text' = <<>> /\ account' = [id |-> "", name |-> ""] /\ split_out' = <<>>
    /\ UNCHANGED facts
    /\ split_results' = <<>> /\ dedup_out' = <<>> /\ dedup_again' = <<>>
    /\ reseller_body' = <<>> /\ reseller_out' = <<>>
    /\ payload' = <<>> /\ email_data' = <<>> /\ orig_meta' = <<>> /\ meta_input' = <<>>
    /\ pc' = "fetch"
    /\ UNCHANGED <<mode, workflow, stop_flag, messages, labelled, cards, outcome,
                   classVars, idVars, parseVars, rosterVars, exportVars, jobVars>>

\* Node: Fetch Email Content and Metadata Extraction (lines 897-923)
FetchMessage ==
    /\ mode = "flow" /\ workflow = "anomalies" /\ pc = "fetch"
    /\ \E m \in FlowPayloads :
          /\ payload' = m
          /\ meta_input' = Flat(BodyOf(m))
          /\ orig_meta' = extract_original_metadata(meta_input')
          /\ email_data' = Update(EmailData(m), orig_meta')
    /\ pc' = "fetched"
    /\ UNCHANGED <<mode, workflow, stop_flag, messages, msg_i, drafts, labelled, cards,
                   outcome, active_account_id, route, processing_queue, idx,
                   splitVars, dedupVars, resellerVars, classVars, idVars, parseVars, rosterVars, exportVars, jobVars>>

\* lines 950-953 and 967-970: the splitter of the route
SplitFor(id, data, segs) ==
    IF id = ResellerId THEN split_reseller_email(segs)
    ELSE split_email_by_anomalies(data.bodyText, id, AccountName(id))

\* the blocks as the splitter of the route returned them, their text_block
\* in tokens
BlocksFor(id, segs, found) == IF id = ResellerId THEN WithText(segs, found) ELSE found

\* lines 956-958 and 973-977: the Deduplicator, on the standard route only
\* when the splitter returned more than one block
Deduplicated(id, blocks) == id = ResellerId \/ Len(blocks) > 1
DedupFor(id, blocks) ==
    IF Deduplicated(id, blocks) THEN deduplicate_usage_types(blocks)
    ELSE [raised |-> FALSE, blocks |-> blocks]

\* Node: Account Identification & Routing, the splitters, the Deduplicator
\* and the processing queue (lines 927-988).  An exception of the
\* Deduplicator leaves the workflow; an empty queue skips the message
\* (continue) before the drafting and before the label.
RouteMessage ==
    /\ mode = "flow" /\ workflow = "anomalies" /\ pc = "fetched"
    /\ ~stop_flag
    /\ \E id \in {Identify("anomalies", email_data)} :
       \E segs \in {TruncSegs(BodyOf(payload), BodyLimit)} :
       \E found \in {SplitFor(id, email_data, segs)} :
       \E blocks \in {BlocksFor(id, segs, found)} :
       \E result \in {DedupFor(id, blocks)} :
           /\ active_account_id' = id
           /\ route' = IF id = ResellerId THEN "reseller" ELSE "standard"
           /\ IF id = ResellerId
              THEN /\ reseller_body' = segs
                   /\ reseller_out' = found
                   /\ UNCHANGED splitVars
              ELSE /\ body_text' = email_data.bodyText
                   /\ account' = [id |-> id, name |-> AccountName(id)]
                   /\ split_out' = found
                   /\ UNCHANGED facts
                   /\ UNCHANGED resellerVars
           /\ IF Deduplicated(id, blocks)
              THEN split_results' = blocks /\ dedup_out' = result
              ELSE UNCHANGED <<split_results, dedup_out>>
           /\ UNCHANGED dedup_again
           /\ IF result.raised
              THEN /\ outcome' = "raised" /\ pc' = "done"
                   /\ UNCHANGED <<processing_queue, idx>>
              ELSE /\ processing_queue' = Queue(result.blocks)
                   /\ idx' = 1
                   /\ pc' = IF result.blocks = <<>> THEN "loop" ELSE "draft"
                   /\ UNCHANGED outcome
    /\ UNCHANGED <<mode, workflow, stop_flag, messages, msg_i, drafts, labelled, cards,
                   fetchVars, classVars, idVars, parseVars, rosterVars, exportVars, jobVars>>

\* the body of the drafting loop for one queue item (lines 996-1057):
\* invoke_llm turns every failure of the service into "{}"; an exception of
\* the card generation leaves the workflow
DraftItem ==
    /\ mode = "flow" /\ workflow = "anomalies" /\ pc = "draft"
    /\ idx <= Len(processing_queue)
    /\ drafts' = drafts + 1
    /\ \E r \in Responses :
          IF CardRaises(r)
          THEN /\ outcome' = "raised" /\ pc' = "done"
               /\ UNCHANGED <<cards, idx>>
          ELSE /\ cards' = cards + Items(r)
               /\ idx' = idx + 1
               /\ UNCHANGED <<pc, outcome>>
    /\ UNCHANGED <<mode, workflow, stop_flag, messages, msg_i, active_account_id, route,
                   processing_queue, labelled,
                   splitVars, dedupVars, resellerVars, fetchVars, classVars, idVars, parseVars, rosterVars, exportVars, jobVars>>

\* Draft without the stop test of line 994
Draft_NoStopTest == DraftItem

\* Node: AI Processing and Card Generation for one queue item (lines
\* 993-1057), after the stop test of line 994
Draft == ~stop_flag /\ DraftItem

\* the inner loop ends, or the stop test of line 994 breaks it, and the
\* code goes on to Node: Apply Label (lines 1059-1066), whose failure is
\* only logged
ApplyLabel ==
    /\ mode = "flow" /\ workflow = "anomalies" /\ pc = "draft"
    /\ idx > Len(processing_queue) \/ stop_flag
    /\ \/ labelled' = labelled \cup {msg_i}
       \/ UNCHANGED labelled
    /\ pc' = "loop"
    /\ UNCHANGED <<mode, workflow, stop_flag, messages, msg_i, drafts, cards, outcome,
                   perMessage, classVars, idVars, parseVars, rosterVars, exportVars, jobVars>>

\* the body of one iteration of run_alerts_workflow (lines 345-458):
\* fetch, metadata, account id, one drafting call whose failure is caught,
\* one card, label
AlertsIteration ==
    /\ mode = "flow" /\ workflow = "alerts" /\ pc = "fetch"
    /\ \E m \in FlowPayloads :
          /\ payload' = m
          /\ meta_input' = Flat(BodyOf(m))
          /\ orig_meta' = extract_original_metadata(meta_input')
          /\ email_data' = Update(EmailData(m), orig_meta')
    /\ active_account_id' = Identify("alerts", email_data')
    /\ drafts' = drafts + 1
    /\ cards' = cards + 1
    /\ \/ labelled' = labelled \cup {msg_i}
       \/ UNCHANGED labelled
    /\ pc' = "loop"
    /\ UNCHANGED <<mode, workflow, stop_flag, messages, msg_i, route, processing_queue, idx,
                   outcome, splitVars, dedupVars, resellerVars, classVars, idVars, parseVars, rosterVars, exportVars, jobVars>>

NextFlow ==
    \/ RequestStop
    \/ StartAnomalies \/ StartAlerts
    \/ NextMessage
    \/ FetchMessage \/ RouteMessage \/ Draft \/ ApplyLabel
    \/ AlertsIteration
    \/ Finish

SpecFlow == InitFlow /\ [][NextFlow]_vars

\* the steps of the workflow thread that can follow a stop request: the
\* completion of the unit of work in flight, and the stop tests.  The thread
\* that app.py starts for the job (line 51) keeps running until the
\* workflow returns or raises, so that none of them is postponed for ever;
\* nothing is assumed of the steps that begin a new unit of work.
AfterStop ==
    \/ StartAnomalies \/ StartAlerts
    \/ FetchMessage \/ ApplyLabel
    \/ AlertsIteration
    \/ Finish

SpecFlowFair == SpecFlow /\ WF_vars(AfterStop)

----------------------------------------------------------------------------
(* The roster: load_account_map and the lookups of the workflow thread     *)
(*                                                                         *)
(* The roster is the module global ACCOUNT_MAP; account_map is its value   *)
(* over time.  /api/reload-map runs load_account_map on a thread of the    *)
(* web server (app.run(threaded=True)) while the workflow thread looks     *)
(* accounts up, with no lock: one action per statement of the reload that  *)
(* touches the global, and one action for a lookup.                        *)

Rep(c, n) == [k \in 1..n |-> c]

\* .replace('.0', ''): every occurrence, left to right
RECURSIVE RemoveDotZero(_)
RemoveDotZero(s) ==
    IF s = <<>> THEN <<>>
    ELSE IF Len(s) >= 2 /\ s[1] = "." /\ s[2] = "0" THEN RemoveDotZero(SubSeq(s, 3, Len(s)))
    ELSE <<s[1]>> \o RemoveDotZero(Tail(s))

IdWidth == 12
zfill(s, width) == IF Len(s) < width THEN Rep("0", width - Len(s)) \o s ELSE s

\* a missing cell is read as NaN, and str() of it is 'nan'
NaN == <<"n", "a", "n">>

\* lines 594-599: the key of a row, <<>> for a row that is skipped
AccId(cell) ==
    LET acc_id == RemoveDotZero(Strip(cell))
    IN  IF acc_id = <<>> \/ acc_id = NaN THEN <<>> ELSE zfill(acc_id, IdWidth)

\* a dict is a function of its keys: d[key] = value and d.get(key, default)
Put(d, key, value) == [k \in DOMAIN d \cup {key} |-> IF k = key THEN value ELSE d[k]]
Get(d, key, default) == IF key \in DOMAIN d THEN d[key] ELSE default

\* lines 601-605: the entry as it is stored, and line 607: the entry once
\* "customer" is set in it
StoredEntry(row) ==
    [accountName |-> row.AccountName, operationsEmail |-> row.OperationsEmail,
     pocName |-> row.POCname]
WithCustomer(entry) ==
    [accountName |-> entry.accountName, operationsEmail |-> entry.operationsEmail,
     pocName |-> entry.pocName, customer |-> entry.accountName]

\* the body of the loop for one row (lines 592-607)
LoadRow(map, row) ==
    IF AccId(row.Account) = <<>> THEN map
    ELSE Put(map, AccId(row.Account), WithCustomer(StoredEntry(row)))

\* the whole loop over the rows of the sheet, from a given value of the
\* global
RECURSIVE LoadRows(_, _)
LoadRows(map, rows) ==
    IF rows = <<>> THEN map ELSE LoadRows(LoadRow(map, Head(rows)), Tail(rows))

\* Bounds and inputs: the sheet is a sequence of rows, or it is missing
MaxRows == 2
MaxReloads == 1
SheetRow(cell, name) ==
    [Account |-> cell, AccountName |-> name, OperationsEmail |-> "ops", POCname |-> "Dana"]
SheetRows ==
    {SheetRow(Rep("1", 12), "Acme"),
     SheetRow(Rep("1", 12), "Acme Ltd"),
     SheetRow(Rep("2", 12) \o <<".", "0">>, "Bolt"),
     SheetRow(<<"4", "2">>, "Cord"),
     SheetRow(NaN, "Acme")}
Sheet(rows) == [exists |-> TRUE, rows |-> rows]
NoFile == [exists |-> FALSE, rows |-> <<>>]
Sheets == {Sheet(rows) : rows \in SeqsUpTo(SheetRows, MaxRows)} \cup {NoFile}
LookupIds == {AccId(r.Account) : r \in SheetRows} \ {<<>>}

\* the value of the global after the import of the module (line 620): the
\* reload has run once, from an empty dict
Imported(sheet) == IF sheet.exists THEN LoadRows(EmptyDict, sheet.rows) ELSE EmptyDict

InitRoster ==
    /\ mode = "roster"
    /\ pc = "idle"
    /\ roster_source \in Sheets
    /\ account_map = Imported(roster_source)
    /\ df = <<>>
    /\ row_i = 0
    /\ map_before = EmptyDict
    /\ reloads = 0
    /\ count = [kind |-> "running", len |-> 0]
    /\ observed = <<>>
    /\ IdleSplit /\ IdleDedup /\ IdleClass /\ IdleId /\ IdleParse /\ IdleReseller
    /\ IdleFetch /\ IdleFlow /\ IdleExport /\ IdleJob

notRoster == <<mode, splitVars, dedupVars, classVars, idVars, parseVars, resellerVars,
            fetchVars, flowVars, exportVars, jobVars>>

\* the sheet is edited between two reloads
EditSheet ==
    /\ mode = "roster" /\ pc = "idle"
    /\ roster_source' \in Sheets \ {roster_source}
    /\ UNCHANGED <<pc, account_map, df, row_i, map_before, reloads, count, observed, notRoster>>

\* reload_map (app.py line 120) calls load_account_map: lines 579-587.  A
\* missing file returns None, a file that cannot be read returns 0 (line
\* 614); the global is left as it is in both cases
ReadSheet ==
    /\ mode = "roster" /\ pc = "idle"
    /\ reloads < MaxReloads
    /\ reloads' = reloads + 1
    /\ map_before' = account_map
    /\ \/ /\ ~roster_source.exists
          /\ count' = [kind |-> "None", len |-> 0] /\ pc' = "returned"
          /\ UNCHANGED <<df, row_i>>
       \/ /\ roster_source.exists
          /\ count' = [kind |-> "int", len |-> 0] /\ pc' = "returned"
          /\ UNCHANGED <<df, row_i>>
       \/ /\ roster_source.exists
          /\ df' = roster_source.rows /\ row_i' = 1 /\ pc' = "rows"
          /\ UNCHANGED count
    /\ UNCHANGED <<roster_source, account_map, observed, notRoster>>

\* lines 592-605: the next row; its entry is stored in the global
StoreEntry ==
    /\ mode = "roster" /\ pc = "rows"
    /\ row_i <= Len(df)
    /\ IF AccId(df[row_i].Account) = <<>>
       THEN /\ row_i' = row_i + 1
            /\ UNCHANGED <<pc, account_map>>
       ELSE /\ account_map' = Put(account_map, AccId(df[row_i].Account), StoredEntry(df[row_i]))
            /\ pc' = "customer"
            /\ UNCHANGED row_i
    /\ UNCHANGED <<roster_source, df, map_before, reloads, count, observed, notRoster>>

\* line 607
SetCustomer ==
    /\ mode = "roster" /\ pc = "customer"
    /\ \E acc_id \in {AccId(df[row_i].Account)} :
          account_map' = Put(account_map, acc_id, WithCustomer(account_map[acc_id]))
    /\ row_i' = row_i + 1
    /\ pc' = "rows"
    /\ UNCHANGED <<roster_source, df, map_before, reloads, count, observed, notRoster>>

\* lines 609-610: return len(ACCOUNT_MAP)
ReturnCount ==
    /\ mode = "roster" /\ pc = "rows"
    /\ row_i > Len(df)
    /\ count' = [kind |-> "int", len |-> Cardinality(DOMAIN account_map)]
    /\ pc' = "returned"
    /\ UNCHANGED <<roster_source, account_map, df, row_i, map_before, reloads, observed,
                   notRoster>>

\* run_anomalies_workflow line 932, on the workflow thread, at any moment:
\* account_info = ACCOUNT_MAP.get(active_account_id, {}).  The lookup
\* reads the global as it is at that moment.
Lookup ==
    /\ mode = "roster"
    /\ \E id \in LookupIds :
          observed' = [id |-> id, reload |-> reloads, roster |-> account_map,
                       account_info |-> Get(account_map, id, EmptyDict)]
    /\ UNCHANGED <<pc, roster_source, account_map, df, row_i, map_before, reloads, count,
                   notRoster>>

NextRoster == EditSheet \/ ReadSheet \/ StoreEntry \/ SetCustomer \/ ReturnCount \/ Lookup

SpecRoster == InitRoster /\ [][NextRoster]_vars

----------------------------------------------------------------------------
(* Tracking ledgers: export_helper.export_anomaly and check_duplicate,     *)
(* called from the request threads of app.py, and delete_rows              *)

\* Bounds and inputs: the request threads of the server, the export
\* requests of a behaviour, and the anomalies they carry (two keys, one of
\* them with the empty region that data.get('region', '') defaults to, and
\* two amounts)
MaxExports == 3
ExportThreads == {1, 2}
KeyColumns == {"account_id", "region", "services", "usage_type", "start_date"}
Anomalies ==
    [account_id : {"111111111111"}, region : {"", "us-east-1"}, services : {"EC2"},
     usage_type : {"BoxUsage"}, start_date : {DT}, total_impact : {"1", "2"}]

\* a cell of a sheet: to_excel writes NaN as an empty cell, and read_excel
\* reads an empty cell, as an empty string, as NaN
NaNCell == "nan"
to_cell(v) == IF v = NaNCell THEN "" ELSE v
read_cell(v) == IF v = "" THEN NaNCell ELSE v
Cells(r, conv(_)) ==
    [Timestamp |-> r.Timestamp, account_id |-> conv(r.account_id),
     region |-> conv(r.region), services |-> conv(r.services),
     usage_type |-> conv(r.usage_type), start_date |-> conv(r.start_date),
     total_impact |-> conv(r.total_impact)]
to_excel(frame) == [i \in 1..Len(frame) |-> Cells(frame[i], to_cell)]

\* export_helper.py lines 13-20: the frame read from a file (a missing file
\* is the empty list of rows)
load_excel(file) == [i \in 1..Len(file) |-> Cells(file[i], read_cell)]

\* lines 56-68: the row of an anomaly
NewRow(now, data) ==
    [Timestamp |-> now, account_id |-> data.account_id, region |-> data.region,
     services |-> data.services, usage_type |-> data.usage_type,
     start_date |-> data.start_date, total_impact |-> data.total_impact]

\* lines 22-43: the Timestamp of the first row whose key cells equal the
\* key of the anomaly (0 for None); NaN equals nothing
check_duplicate(frame, data) ==
    LET matches == {i \in 1..Len(frame) : \A c \in KeyColumns : frame[i][c] = data[c]}
    IN  IF matches = {} THEN 0 ELSE frame[MinOf(matches)].Timestamp

\* lines 70-78: the outcome of the two checks ("" when the call goes on to
\* write)
Checked(daily_df, master_df, data, force_master) ==
    IF check_duplicate(daily_df, data) # 0 THEN "daily_duplicate"
    ELSE IF check_duplicate(master_df, data) # 0 /\ ~force_master THEN "master_duplicate"
    ELSE ""

\* a request thread outside export_anomaly
IdleCall ==
    [pc |-> "idle", data |-> CHOOSE d \in Anomalies : TRUE, force |-> FALSE,
     daily_df |-> <<>>, master_df |-> <<>>,
     row |-> NewRow(0, CHOOSE d \in Anomalies : TRUE), result |-> "", solo |-> TRUE]

InitExport ==
    /\ mode = "export"
    /\ pc = "serve"
    /\ daily_file = <<>>
    /\ master_file = <<>>
    /\ calls = [t \in ExportThreads |-> IdleCall]
    /\ clock = 0
    /\ IdleSplit /\ IdleDedup /\ IdleClass /\ IdleId /\ IdleParse /\ IdleRoster
    /\ IdleReseller /\ IdleFetch /\ IdleFlow /\ IdleJob

notExport == <<mode, pc, splitVars, dedupVars, classVars, idVars, parseVars, rosterVars,
               resellerVars, fetchVars, flowVars, jobVars>>

\* app.py lines 143-150: a request thread enters export_anomaly; a call is
\* solo when no other call is in flight from its beginning to its end
ExportRequest(t, data, force) ==
    /\ mode = "export"
    /\ calls[t].pc = "idle"
    /\ clock < MaxExports
    /\ clock' = clock + 1
    /\ calls' = [u \in ExportThreads |->
                    IF u = t
                    THEN [IdleCall EXCEPT !.pc = "load_daily", !.data = data,
                                          !.force = force,
                                          !.solo = \A v \in ExportThreads \ {t} :
                                                       calls[v].pc = "idle"]
                    ELSE [calls[u] EXCEPT !.solo = @ /\ calls[u].pc = "idle"]]
    /\ UNCHANGED <<daily_file, master_file, notExport>>

\* line 52
LoadDaily(t) ==
    /\ mode = "export"
    /\ calls[t].pc = "load_daily"
    /\ calls' = [calls EXCEPT ![t].daily_df = load_excel(daily_file),
                              ![t].pc = "load_master"]
    /\ UNCHANGED <<daily_file, master_file, clock, notExport>>

\* lines 53-78: the master frame, the row and the two checks
LoadMaster(t) ==
    /\ mode = "export"
    /\ calls[t].pc = "load_master"
    /\ LET master_df == load_excel(master_file)
           status == Checked(calls[t].daily_df, master_df, calls[t].data, calls[t].force)
       IN  calls' = [calls EXCEPT ![t].master_df = master_df,
                                  ![t].row = NewRow(clock, calls[t].data),
                                  ![t].result = status,
                                  ![t].pc = IF status = "" THEN "write_daily" ELSE "done"]
    /\ UNCHANGED <<daily_file, master_file, clock, notExport>>

\* lines 84-85
WriteDaily(t) ==
    /\ mode = "export"
    /\ calls[t].pc = "write_daily"
    /\ daily_file' = to_excel(Append(calls[t].daily_df, calls[t].row))
    /\ calls' = [calls EXCEPT ![t].pc = "write_master"]
    /\ UNCHANGED <<master_file, clock, notExport>>

\* lines 88-91
WriteMaster(t) ==
    /\ mode = "export"
    /\ calls[t].pc = "write_master"
    /\ master_file' = to_excel(Append(calls[t].master_df, calls[t].row))
    /\ calls' = [calls EXCEPT ![t].result = "success", ![t].pc = "done"]
    /\ UNCHANGED <<daily_file, clock, notExport>>

\* app.py lines 152-170: the response is sent
Respond(t) ==
    /\ mode = "export"
    /\ calls[t].pc = "done"
    /\ calls' = [calls EXCEPT ![t] = IdleCall]
    /\ UNCHANGED <<daily_file, master_file, clock, notExport>>

\* export_helper.py lines 93-108, on the daily file: the rows of one
\* Timestamp are deleted
delete_rows(ts) ==
    /\ mode = "export"
    /\ \E i \in 1..Len(daily_file) : daily_file[i].Timestamp = ts
    /\ daily_file' = to_excel(SelectSeq(load_excel(daily_file),
                                        LAMBDA r : r.Timestamp # ts))
    /\ calls' = [u \in ExportThreads |->
                    [calls[u] EXCEPT !.solo = @ /\ calls[u].pc = "idle"]]
    /\ UNCHANGED <<master_file, clock, notExport>>

NextExport ==
    \/ \E t \in ExportThreads, data \in Anomalies, force \in BOOLEAN :
           ExportRequest(t, data, force)
    \/ \E t \in ExportThreads : LoadDaily(t)
    \/ \E t \in ExportThreads : LoadMaster(t)
    \/ \E t \in ExportThreads : WriteDaily(t)
    \/ \E t \in ExportThreads : WriteMaster(t)
    \/ \E t \in ExportThreads : Respond(t)
    \/ \E ts \in 1..MaxExports : delete_rows(ts)

SpecExport == InitExport /\ [][NextExport]_vars

----------------------------------------------------------------------------
(* Job manager: JobManager.start_job, its wrapper thread, and get_stream   *)
(* (app.py)                                                                *)

\* Bounds: the start requests and the stream requests of a behaviour.  The
\* context and the thread that start request r creates are numbered r.
MaxStarts == 3
MaxStreams == 2
Starts == 1..MaxStarts
StreamIds == 1..MaxStreams
Modes == {"anomalies", "alerts"}

\* Thread.is_alive(): true from start() until the target has returned
is_alive(j) == threads[j].state = "alive"

\* plausible slip: start_job without its lock
LockFree_Always == TRUE

\* line 32: the lock can be taken
LockFree == lock = 0

\* lines 45-47: what the wrapper puts after the workflow
Outcome(raised) == IF raised THEN "error" ELSE "result"

\* Queue.put by the job thread of context j
QueuePut(j, msg) ==
    /\ msg_queue' = [msg_queue EXCEPT ![j] = Append(@, msg)]
    /\ put_log' = [put_log EXCEPT ![j] = Append(@, msg)]

InitJobs ==
    /\ mode = "jobs"
    /\ pc = "serve"
    /\ lock = 0
    /\ starts = [r \in Starts |-> [pc |-> "idle", mode |-> "", ret |-> ""]]
    /\ active_context = 0
    /\ thread = 0
    /\ threads = [j \in Starts |-> [state |-> "none", pc |-> "", mode |-> "",
                                     raised |-> FALSE]]
    /\ msg_queue = [j \in Starts |-> <<>>]
    /\ put_log = [j \in Starts |-> <<>>]
    /\ streams = [s \in StreamIds |-> [pc |-> "idle", ctx |-> 0, got |-> <<>>]]
    /\ IdleSplit /\ IdleDedup /\ IdleClass /\ IdleId /\ IdleParse /\ IdleRoster
    /\ IdleReseller /\ IdleFetch /\ IdleFlow /\ IdleExport

notJobs == <<mode, pc, splitVars, dedupVars, classVars, idVars, parseVars, rosterVars,
             resellerVars, fetchVars, flowVars, exportVars>>

\* app.py lines 89-93, 99-101 and 32: a start request enters start_job and
\* takes the lock (the requests are numbered in the order of their arrival)
Acquire(r, m) ==
    /\ mode = "jobs"
    /\ starts[r].pc = "idle"
    /\ \A q \in Starts : q < r => starts[q].pc # "idle"
    /\ LockFree
    /\ lock' = r
    /\ starts' = [starts EXCEPT ![r].pc = "locked", ![r].mode = m]
    /\ UNCHANGED <<active_context, thread, threads, msg_queue, put_log, streams, notJobs>>

\* lines 33-36: busy while the thread is alive, else a new context
CheckAlive(r) ==
    /\ mode = "jobs"
    /\ starts[r].pc = "locked"
    /\ IF active_context # 0 /\ thread # 0 /\ is_alive(thread)
       THEN /\ starts' = [starts EXCEPT ![r].pc = "returned", ![r].ret = "busy"]
            /\ lock' = 0
            /\ UNCHANGED active_context
       ELSE /\ starts' = [starts EXCEPT ![r].pc = "context"]
            /\ active_context' = r
            /\ UNCHANGED lock
    /\ UNCHANGED <<thread, threads, msg_queue, put_log, streams, notJobs>>

\* line 51: the Thread object, not yet started
CreateThread(r) ==
    /\ mode = "jobs"
    /\ starts[r].pc = "context"
    /\ thread' = r
    /\ threads' = [threads EXCEPT ![r] = [state |-> "new", pc |-> "call",
                                          mode |-> starts[r].mode, raised |-> FALSE]]
    /\ starts' = [starts EXCEPT ![r].pc = "thread"]
    /\ UNCHANGED <<lock, active_context, msg_queue, put_log, streams, notJobs>>

\* lines 52-53: the thread is started and the lock released
StartThread(r) ==
    /\ mode = "jobs"
    /\ starts[r].pc = "thread"
    /\ threads' = [threads EXCEPT ![r].state = "alive"]
    /\ starts' = [starts EXCEPT ![r].pc = "returned", ![r].ret = "started"]
    /\ lock' = 0
    /\ UNCHANGED <<active_context, thread, msg_queue, put_log, streams, notJobs>>

\* lines 39-43: the workflow is called.  run_anomalies_workflow(ctx) is
\* called with limit=limit, a keyword it does not take: the call raises
\* TypeError before the workflow runs.  run_alerts_workflow logs its first
\* line and returns or raises.
CallWorkflow(j, raises) ==
    /\ mode = "jobs"
    /\ is_alive(j)
    /\ threads[j].pc = "call"
    /\ threads[j].mode = "anomalies" => raises
    /\ threads' = [threads EXCEPT ![j].pc = "put", ![j].raised = raises]
    /\ IF threads[j].mode = "alerts"
       THEN QueuePut(j, "log")
       ELSE UNCHANGED <<msg_queue, put_log>>
    /\ UNCHANGED <<lock, starts, active_context, thread, streams, notJobs>>

\* lines 45-47
PutOutcome(j) ==
    /\ mode = "jobs"
    /\ is_alive(j)
    /\ threads[j].pc = "put"
    /\ QueuePut(j, Outcome(threads[j].raised))
    /\ threads' = [threads EXCEPT ![j].pc = "finally"]
    /\ UNCHANGED <<lock, starts, active_context, thread, streams, notJobs>>

\* plausible slip: 'done' put after a result only
Finally_NotAfterError(j) ==
    /\ mode = "jobs"
    /\ is_alive(j)
    /\ threads[j].pc = "finally"
    /\ IF threads[j].raised
       THEN UNCHANGED <<msg_queue, put_log>>
       ELSE QueuePut(j, "done")
    /\ threads' = [threads EXCEPT ![j].pc = "exit"]
    /\ UNCHANGED <<lock, starts, active_context, thread, streams, notJobs>>

\* lines 48-49
Finally(j) ==
    /\ mode = "jobs"
    /\ is_alive(j)
    /\ threads[j].pc = "finally"
    /\ QueuePut(j, "done")
    /\ threads' = [threads EXCEPT ![j].pc = "exit"]
    /\ UNCHANGED <<lock, starts, active_context, thread, streams, notJobs>>

\* the wrapper has returned: the thread is no longer alive
Exit(j) ==
    /\ mode = "jobs"
    /\ is_alive(j)
    /\ threads[j].pc = "exit"
    /\ threads' = [threads EXCEPT ![j].state = "dead"]
    /\ UNCHANGED <<lock, starts, active_context, thread, msg_queue, put_log, streams,
                   notJobs>>

\* lines 62-67: a stream request takes the current context; without one it
\* yields an empty event and ends
Attach(s) ==
    /\ mode = "jobs"
    /\ streams[s].pc = "idle"
    /\ streams' = [streams EXCEPT ![s] =
                      IF active_context = 0
                      THEN [pc |-> "ended", ctx |-> 0, got |-> <<"{}">>]
                      ELSE [pc |-> "wait", ctx |-> active_context, got |-> <<>>]]
    /\ UNCHANGED <<lock, starts, active_context, thread, threads, msg_queue, put_log,
                   notJobs>>

\* lines 72-75: a message is taken from the queue and yielded
GetMessage(s) ==
    /\ mode = "jobs"
    /\ streams[s].pc = "wait"
    /\ msg_queue[streams[s].ctx] # <<>>
    /\ LET msg == Head(msg_queue[streams[s].ctx])
       IN  /\ msg_queue' = [msg_queue EXCEPT ![streams[s].ctx] = Tail(@)]
           /\ streams' = [streams EXCEPT
                             ![s].got = Append(@, msg),
                             ![s].pc = IF msg \in {"done", "error"} THEN "ended" ELSE "wait"]
    /\ UNCHANGED <<lock, starts, active_context, thread, threads, put_log, notJobs>>

\* lines 76-80: the get timed out, the thread of the manager is not alive
\* and the queue is empty
TimeoutDone(s) ==
    /\ mode = "jobs"
    /\ streams[s].pc = "wait"
    /\ msg_queue[streams[s].ctx] = <<>>
    /\ thread # 0 /\ ~is_alive(thread)
    /\ streams' = [streams EXCEPT ![s].got = Append(@, "done"), ![s].pc = "ended"]
    /\ UNCHANGED <<lock, starts, active_context, thread, threads, msg_queue, put_log,
                   notJobs>>

StartStep == \E r \in Starts : CheckAlive(r) \/ CreateThread(r) \/ StartThread(r)
JobStep ==
    \E j \in Starts :
        \/ \E raises \in BOOLEAN : CallWorkflow(j, raises)
        \/ PutOutcome(j) \/ Finally(j) \/ Exit(j)

NextJobs ==
    \/ \E r \in Starts, m \in Modes : Acquire(r, m)
    \/ \E r \in Starts : CheckAlive(r)
    \/ \E r \in Starts : CreateThread(r)
    \/ \E r \in Starts : StartThread(r)
    \/ \E j \in Starts, raises \in BOOLEAN : CallWorkflow(j, raises)
    \/ \E j \in Starts : PutOutcome(j)
    \/ \E j \in Starts : Finally(j)
    \/ \E j \in Starts : Exit(j)
    \/ \E s \in StreamIds : Attach(s)
    \/ \E s \in StreamIds : GetMessage(s)
    \/ \E s \in StreamIds : TimeoutDone(s)

SpecJobs == InitJobs /\ [][NextJobs]_vars

\* the request threads inside start_job, the job threads and the stream
\* generators keep running; new requests need not arrive
SpecJobsFair ==
    /\ SpecJobs
    /\ WF_vars(StartStep)
    /\ WF_vars(JobStep)
    /\ \A s \in StreamIds : WF_vars(GetMessage(s) \/ TimeoutDone(s))

----------------------------------------------------------------------------
(* Claims about the Standard Splitter                                      *)

\* Declarative reading of the markers: every 0-based position where the
\* text "Start Date: YYYY-MM-DD" occurs
MarkerPositions(s) == {p \in 0..(Len(s) - 1) : AnomalyMatchEnd(s, p + 1) # 0}

RECURSIVE Concat(_)
Concat(ss) == IF ss = <<>> THEN <<>> ELSE Head(ss) \o Concat(Tail(ss))

SplitDone == mode = "split" /\ pc = "return"

\* C1 (as stated): N markers give N blocks and the blocks, in order, cover
\* the body with no gaps or overlaps (their concatenation is the body);
\* no marker gives one block equal to the whole body.
C1_BlocksCoverBody ==
    SplitDone =>
        /\ Len(split_out) = Max(1, Cardinality(MarkerPositions(body_text)))
        /\ Concat([i \in 1..Len(split_out) |-> split_out[i].text_block]) = body_text

\* C1 (amended): N markers give N blocks; the i-th block is the slice from
\* the i-th marker to the next marker (end of text for the last) with
\* leading and trailing whitespace stripped; the text before the first
\* marker is in no block; no marker gives one block equal to the whole
\* body; every block carries the caller's account_id and account_name.
C1_BlocksAreStrippedSlices ==
    SplitDone =>
        LET m == Sorted(MarkerPositions(body_text))
            n == Len(m)
        IN  /\ \A i \in 1..Len(split_out) :
                  /\ split_out[i].account_id = account.id
                  /\ split_out[i].account_name = account.name
            /\ IF n = 0
               THEN /\ Len(split_out) = 1
                    /\ split_out[1].text_block = body_text
               ELSE /\ Len(split_out) = n
                    /\ \A i \in 1..n :
                          split_out[i].text_block =
                              Strip(Slice(body_text, m[i],
                                          IF i < n THEN m[i + 1] ELSE Len(body_text)))

\* a body with a preamble before the first of two markers: two blocks
C1_Witness ==
    /\ SplitDone
    /\ Len(split_out) = 2
    /\ body_text[1] = "x"

----------------------------------------------------------------------------
(* Claims about the Deduplicator                                           *)

Triple(item) == <<item.account_id, Enriched(item).region, Enriched(item).usage_type>>

DedupReturned == mode = "dedup" /\ pc \in {"return", "again"} /\ ~dedup_out.raised

\* C3 (first three parts): the output is no longer than the input, its
\* blocks are pairwise distinct on (account_id, region, usage_type), and
\* every output block is one of the input blocks.
C3_OutputShape ==
    DedupReturned =>
        LET out == dedup_out.blocks
        IN  /\ Len(out) <= Len(split_results)
            /\ \A i, j \in 1..Len(out) : i # j => Triple(out[i]) # Triple(out[j])
            /\ \A i \in 1..Len(out) :
                  \E j \in 1..Len(split_results) : out[i] = split_results[j]

\* C3: the three parts above, and for every input block (so for every
\* discarded one) a surviving block with the same triple has an
\* impact_value greater than or equal to its own.
C3_SurvivorDominates ==
    DedupReturned =>
        LET out == dedup_out.blocks
        IN  /\ C3_OutputShape
            /\ \A j \in 1..Len(split_results) :
                  \E i \in 1..Len(out) :
                      /\ Triple(out[i]) = Triple(split_results[j])
                      /\ ~FloatLess(Enriched(out[i]).impact_value,
                                   Enriched(split_results[j]).impact_value)

\* C4: deduplicate_usage_types applied to its own output returns that
\* output: same blocks, same order, same fields.
C4_Idempotent ==
    (mode = "dedup" /\ pc = "again") =>
        /\ ~dedup_again.raised
        /\ dedup_again.blocks = dedup_out.blocks

\* three blocks went in, one was discarded, two groups survive, and the
\* second call has returned
C4_Witness ==
    /\ mode = "dedup" /\ pc = "again"
    /\ Len(split_results) = 3
    /\ Len(dedup_out.blocks) = 2
    /\ split_results[1] # dedup_out.blocks[1]

\* the first block of maximum impact_value among the input blocks that share
\* the triple of the block at position j
FirstMaxOfTriple(j) ==
    LET G == {i \in 1..Len(split_results) : Triple(split_results[i]) = Triple(split_results[j])}
        imp(i) == Enriched(split_results[i]).impact_value
    IN  CHOOSE m \in G :
            /\ \A k \in G : ~FloatLess(imp(m), imp(k))
            /\ \A k \in G : k < m => FloatLess(imp(k), imp(m))

\* C21: of each group of input blocks sharing (account_id, region,
\* usage_type) exactly one block is kept, the first of those of maximum
\* impact_value in input order, and the blocks returned have the fields
\* account_id, account_name, text_block and monitor_type only.
C21_OneFirstMaxPerTriple ==
    DedupReturned =>
        LET out == dedup_out.blocks
        IN  /\ \A j \in 1..Len(split_results) :
                  /\ Cardinality({i \in 1..Len(out) :
                          Triple(out[i]) = Triple(split_results[j])}) = 1
                  /\ \E i \in 1..Len(out) : out[i] = split_results[FirstMaxOfTriple(j)]
            /\ \A i \in 1..Len(out) :
                  DOMAIN out[i] = {"account_id", "account_name", "text_block", "monitor_type"}

\* C30: two blocks are in the same group of the dict `groups` if and only
\* if their (account_id, region, usage_type) triples are equal component by
\* component, so that a list of blocks of pairwise different triples is
\* returned as it is.
C30_GroupsAreTriples ==
    DedupReturned =>
        /\ \A i, j \in 1..Len(split_results) :
              (GroupKey(Enriched(split_results[i])) = GroupKey(Enriched(split_results[j])))
                  <=> (Triple(split_results[i]) = Triple(split_results[j]))
        /\ (\A i, j \in 1..Len(split_results) :
                i # j => Triple(split_results[i]) # Triple(split_results[j]))
              => dedup_out.blocks = split_results

----------------------------------------------------------------------------
(* Claims about the Classifier                                             *)

\* what the subject and the sender say, case-insensitively; a missing
\* sender or subject says nothing
Says(text, marker) ==
    /\ text # PyNone
    /\ \E i \in 1..Len(text) : Within(marker, Lower(text[i]))

SubjCost == Says(subject, "cost anomaly")
SubjBudget == Says(subject, "aws budget")
SubjRI == Says(subject, "ri utilization")
SubjFree == Says(subject, "aws free tier")
FromBudgets == Says(sender, "budgets@costalerts.amazonaws.com")
FromFreeTier == Says(sender, "freetier@costalerts.amazonaws.com")

BudgetFamily == IF SubjRI THEN "ri_utilization_alert" ELSE "budget_notification"

----------------------------------------------------------------------------
(* Claims about the Account Identifier                                     *)

\* a 12-digit number stands at position p of the text: four groups of three
\* digits, each pair of groups joined by nothing, a dash or a space, not
\* touching a letter or a digit on either side; its digits
NumberAt(s, p) ==
    IF s[p] \notin DigitChars \/ (p > 1 /\ s[p - 1] \in WordChars) THEN {}
    ELSE {RemoveSeps(SubSeq(s, p, p + 11 + Len(ss[1]) + Len(ss[2]) + Len(ss[3]))) :
            ss \in {tt \in Seps \X Seps \X Seps :
                      LET e == p + 11 + Len(tt[1]) + Len(tt[2]) + Len(tt[3])
                      IN  /\ e <= Len(s)
                          /\ (e < Len(s) => s[e + 1] \notin WordChars)
                          /\ LET w == SubSeq(s, p, e)
                                 d == RemoveSeps(w)
                             IN  /\ Len(d) = 12
                                 /\ \A i \in 1..12 : d[i] \in DigitChars
                                 /\ w = Written(d, tt[1], tt[2], tt[3])}}

NumberPositions(s) == {p \in 1..Len(s) : NumberAt(s, p) # {}}

\* C7: the result is the empty string or exactly 12 digits without
\* separators, namely the digits of the first 12-digit number of the text
\* (bare or in groups of three); it is empty for an empty or missing text
\* and when the text holds no such number.
C7_TwelveDigitsOrEmpty ==
    (mode = "extract_id" /\ pc = "return") =>
        /\ id_out = <<>> \/ (Len(id_out) = 12 /\ \A i \in 1..12 : id_out[i] \in DigitChars)
        /\ LET N == IF id_text = PyNone THEN {} ELSE NumberPositions(id_text)
           IN  IF N = {} THEN id_out = <<>>
               ELSE id_out \in NumberAt(id_text, CHOOSE p \in N : \A q \in N : p <= q)

\* a dashed number followed by a second, different number: the first is
\* returned, without its dashes
C7_Witness ==
    /\ mode = "extract_id" /\ pc = "return"
    /\ id_out = IdA
    /\ \E p \in 1..Len(id_text) : id_text[p] = "-"
    /\ Cardinality(NumberPositions(id_text)) = 2

----------------------------------------------------------------------------
(* Claims about the Reseller Splitter                                      *)

\* the workflow handed the message to the Reseller Splitter
ResellerRouted == mode = "flow" /\ route = "reseller"

\* C2: split_reseller_email returns one block per member anchor, in anchor
\* order, each with the id of its anchor and the name of its anchor (the
\* text between the parentheses, without surrounding blanks); with no
\* anchor it returns the empty list, and the workflow then queues nothing,
\* makes no drafting call for the message and raises nothing.
C2_OneBlockPerAnchor ==
    ResellerRouted =>
        LET anchors == Sorted(KindAt(reseller_body, "mem"))
        IN  /\ Len(reseller_out) = Len(anchors)
            /\ \A k \in 1..Len(anchors) :
                  /\ reseller_out[k].account_id = reseller_body[anchors[k]].id
                  /\ reseller_out[k].account_name = Strip(reseller_body[anchors[k]].val)
            /\ anchors = <<>> =>
                  /\ reseller_out = <<>>
                  /\ processing_queue = <<>>
                  /\ drafts = 0
                  /\ outcome # "raised"

\* the second message of a run is a reseller email without any anchor: it
\* was skipped, after the first message had its blocks drafted into cards
C2_Witness ==
    /\ ResellerRouted
    /\ pc = "loop"
    /\ msg_i = 2
    /\ KindAt(reseller_body, "mem") = {}
    /\ reseller_out = <<>>
    /\ cards > 0

\* the member anchors whose whole text lies within the characters [from, to)
AnchorsIn(body, from, to) ==
    {j \in KindAt(body, "mem") :
        SegStart(body, j) >= from /\ SegStart(body, j) + MatchWidth(body[j]) <= to}

\* C5: the account data of every block contains exactly one member anchor,
\* the block's own, whatever the spacing of the anchors.
C5_OneAnchorPerBlock ==
    (mode = "reseller" /\ pc = "return") =>
        LET members == Sorted(KindAt(reseller_body, "mem"))
        IN  \A i \in 1..Len(reseller_out) :
                AnchorsIn(reseller_body, reseller_out[i].text_block.from,
                          reseller_out[i].text_block.to) = {members[i]}

\* the anchor of the i-th returned block, and the rows that begin before it
AnchorOf(i) == Sorted(KindAt(reseller_body, "mem"))[i]
RowsBeforeAnchor(i) == {r \in KindAt(reseller_body, "row") : r < AnchorOf(i)}

\* C22: the row context of a member's block is the last row that begins
\* before the member anchor; the anchors lying between the same two row
\* starts get the same row context and the same monitor info; an anchor that
\* precedes every row gets an empty row context.
C22_LastRowBeforeAnchor ==
    (mode = "reseller" /\ pc = "return") =>
        /\ \A i \in 1..Len(reseller_out) :
              LET R == RowsBeforeAnchor(i)
                  c == reseller_out[i].text_block.context
              IN  IF R = {} THEN c = 0 ELSE c \in R /\ \A r \in R : r <= c
        /\ \A i, j \in 1..Len(reseller_out) :
              RowsBeforeAnchor(i) = RowsBeforeAnchor(j) =>
                  /\ reseller_out[i].text_block.context = reseller_out[j].text_block.context
                  /\ reseller_out[i].text_block.monitor = reseller_out[j].text_block.monitor
                  /\ reseller_out[i].monitor_type = reseller_out[j].monitor_type

\* two anchors follow the second of two rows, whose monitor info they share
C22_Witness ==
    /\ mode = "reseller"
    /\ pc = "return"
    /\ Len(reseller_out) = 2
    /\ Cardinality(RowsBeforeAnchor(1)) = 2
    /\ RowsBeforeAnchor(2) = RowsBeforeAnchor(1)
    /\ reseller_out[1].text_block.monitor # 0

\* C23: the account data of the anchor at position p starts at the
\* 'AWS Service:' line nearest before p within the 200 characters before p
\* (at p without one) and ends at the end of the first impact found within
\* the 400 characters from p (at p + 200 without one).
C23_AccountDataSlice ==
    (mode = "reseller" /\ pc = "return") =>
        \A i \in 1..Len(reseller_out) :
            LET body == reseller_body
                p == SegStart(body, AnchorOf(i))
                S == {j \in KindAt(body, "svc") :
                         j < AnchorOf(i) /\ p - SegStart(body, j) <= LookBack}
                I == {j \in KindAt(body, "imp") :
                         /\ j > AnchorOf(i)
                         /\ SegStart(body, j) + MatchWidth(body[j]) <= p + LookAhead}
                from == IF S = {} THEN p ELSE SegStart(body, MaxOf(S))
                to == IF I = {} THEN p + DefaultForward
                      ELSE SegStart(body, MinOf(I)) + MatchWidth(body[MinOf(I)])
            IN  /\ reseller_out[i].text_block.from = from
                /\ reseller_out[i].text_block.to = Min(to, BodyLen(body))

----------------------------------------------------------------------------
(* Claims about Metadata Recovery                                          *)

MetaDone == mode = "meta" /\ pc = "return"

\* the forwarded preamble is detected
Detected ==
    \/ InFirst(FWD, meta_input, FwdWindow)
    \/ InFirst("From:", meta_input, FromWindow)

\* Declarative reading of the header lines: a line is a run of the text
\* between newlines; a header line begins with its label; its value is the
\* rest of the line, stripped; it is parseable when the value is not empty
LineStarts(s) == {p \in 1..Len(s) : p = 1 \/ s[p - 1] = NL}
LineValue(s, p) == Strip(SubSeq(s, p + 1, LineEnd(s, p)))

\* the value of the first parseable header line with one of the labels
\* (<<>> when there is none)
FirstValue(s, labels) ==
    LET P == {p \in LineStarts(s) : s[p] \in labels /\ LineValue(s, p) # <<>>}
    IN  IF P = {} THEN <<>> ELSE LineValue(s, CHOOSE p \in P : \A q \in P : p <= q)

\* a recovered field: the key is held with this value, or is not held when
\* there is no value
Recovered(key, value) ==
    IF value = <<>> THEN key \notin DOMAIN orig_meta
    ELSE key \in DOMAIN orig_meta /\ orig_meta[key] = value

\* C9: when the preamble is detected, fromName/fromAddress come from the
\* "To:" line when one is present and parseable, from the "From:" line only
\* otherwise ('Name <address>' split into name and address, a bare address
\* used for both); date comes from the "Date:"/"Sent:" line and subject
\* from the "Subject:" line.
C9_ToLineThenFromLine ==
    (MetaDone /\ Detected) =>
        LET s == meta_input
            to == FirstValue(s, {"To:"})
            who == IF to # <<>> THEN to ELSE FirstValue(s, {"From:"})
        IN  /\ IF who = <<>> THEN "fromName" \notin DOMAIN orig_meta
               ELSE /\ Recovered("fromName", Sender(who).fromName)
                    /\ Recovered("fromAddress", Sender(who).fromAddress)
            /\ Recovered("date", FirstValue(s, {"Date:", "Sent:"}))
            /\ Recovered("subject", FirstValue(s, {"Subject:"}))

\* C10: the returned dict holds only keys among fromName, fromAddress, date
\* and subject, fromName and fromAddress together, and is empty when the
\* preamble is not detected; the overlay changes only those keys of the
\* record, deletes no field and blanks no field that had a value.
C10_OverlayNeverBlanks ==
    MetaDone =>
        LET before == EmailData(payload)
        IN  /\ DOMAIN orig_meta \subseteq {"fromName", "fromAddress", "date", "subject"}
            /\ ("fromName" \in DOMAIN orig_meta) <=> ("fromAddress" \in DOMAIN orig_meta)
            /\ ~Detected => orig_meta = EmptyDict
            /\ DOMAIN email_data = DOMAIN before
            /\ \A k \in DOMAIN before \ DOMAIN orig_meta : email_data[k] = before[k]
            /\ \A k \in DOMAIN before : before[k] # <<>> => email_data[k] # <<>>

\* Declarative reading of the Body Normalizer: the text of the HTML part is
\* what is left of it without markup, its last newline dropped
HtmlText(html) ==
    LET toks == Flat(SelectSeq(html, LAMBDA seg : seg.kind \notin Markup))
    IN  IF toks # <<>> /\ toks[Len(toks)] = NL THEN SubSeq(toks, 1, Len(toks) - 1)
        ELSE toks

\* the plain-text part if present, else the HTML part stripped to text,
\* else the snippet, else the empty string
NormalBody(m) ==
    IF m.body # <<>> THEN Flat(m.body)
    ELSE IF m.html # <<>> THEN HtmlText(m.html)
    ELSE Flat(m.snippet)

\* C11: the normalized body is the plain-text part, else the stripped HTML
\* part, else the snippet, else empty, capped at 8000 characters; the text
\* handed to Metadata Recovery and the bodyText of the record, from which
\* the later stages take their text, have at most 8000 characters.
C11_BodyNormalAndCapped ==
    MetaDone =>
        /\ email_data.bodyText = CharSlice(NormalBody(payload), 0, BodyLimit)
        /\ Width(email_data.bodyText) <= BodyLimit
        /\ Width(meta_input) <= BodyLimit

----------------------------------------------------------------------------
(* Claims about the Fact Extractor                                         *)

FactsDone == mode = "facts" /\ pc = "return"

\* C12: on every block of the Standard Splitter of a body with a marker,
\* the Fact Extractor recovers one date range, and the one region and the
\* one usage type that the Deduplicator extracts from the block for its
\* key (none where the Deduplicator extracts the empty string).
C12_FactsMatchDedupKey ==
    (FactsDone /\ FindAnomalyStarts(body_text, 1) # <<>>) =>
        \A k \in 1..Len(split_out) :
            /\ facts[k].dates.start # NoDate /\ facts[k].dates.end # NoDate
            /\ facts[k].regions =
                  IF Region(split_out[k]) = <<>> THEN <<>> ELSE <<Region(split_out[k])>>
            /\ facts[k].usage_types =
                  IF UsageType(split_out[k]) = <<>> THEN <<>>
                  ELSE <<UsageType(split_out[k])>>

\* the positions of the text where one of the labels is followed, after
\* blanks only, by a date
Dated(t, labels) ==
    {p \in 1..Len(t) :
        /\ t[p] \in labels
        /\ \E q \in (p + 1)..Len(t) :
              t[q] \in DateToks /\ \A r \in (p + 1)..(q - 1) : IsWs(t[r])}
\* the date that follows the label at position p
DateOf(t, p) == t[CHOOSE q \in (p + 1)..Len(t) : t[q] \in DateToks
                                                   /\ \A r \in (p + 1)..(q - 1) : IsWs(t[r])]
FirstOf(P) == CHOOSE p \in P : \A q \in P : p <= q

\* C24: extract_dates returns as start the date of the first
\* 'Start Date: YYYY-MM-DD' (None without one) and as end the date of the
\* first 'Last Detected Date:' or 'End Date:' line; without an end line the
\* end equals the start; so whenever the start is present the end is too.
C24_EndDefaultsToStart ==
    FactsDone =>
        \A k \in 1..Len(facts) :
            LET t == split_out[k].text_block
                d == facts[k].dates
                S == Dated(t, {SD})
                E == Dated(t, {LDD, EDT})
            IN  /\ d.start = IF S = {} THEN NoDate ELSE DateOf(t, FirstOf(S))
                /\ E # {} => d.end = DateOf(t, FirstOf(E))
                /\ E = {} => d.end = d.start
                /\ d.start # NoDate => d.end # NoDate

\* a block with a start date and no end line got the start date as its end
C24_Witness ==
    /\ FactsDone
    /\ \E k \in 1..Len(facts) :
          /\ Dated(split_out[k].text_block, {LDD, EDT}) = {}
          /\ facts[k].dates.start = DT
          /\ facts[k].dates.end = DT

----------------------------------------------------------------------------
(* Claims about the response parsers                                       *)

ParseDone == mode = "parse" /\ pc = "return"

\* C13: no parser raises, whatever the response text: the outcome is the
\* clean parse of the text without its fence when there is one, else a
\* recovered parse or the empty object.
C13_ParsersNeverRaise ==
    ParseDone =>
        LET clean == json_loads(Unfence(Strip(ResponseText(llm_response)), 1))
        IN  /\ parsed.raised = ""
            /\ clean.st = "ok" => parsed.value = clean.val

\* the payload of the response is one valid JSON object, wrapped in a fence
\* or not
ObjectPayload ==
    /\ json_loads(llm_response.payload).st = "ok"
    /\ json_loads(llm_response.payload).val.type = "object"
    /\ (llm_response.open = <<>>) <=> (llm_response.close = <<>>)

\* C14: parse_llm_response returns exactly the object of the payload when
\* the payload is one valid JSON object in a fence and/or with prose around
\* it, whatever its values, arrays included.
C14_ObjectPayloadReturned ==
    (ParseDone /\ parser = "parse_llm_response" /\ ObjectPayload) =>
        parsed = Returned(json_loads(llm_response.payload).val)

----------------------------------------------------------------------------
(* Claims about the workflows                                              *)

\* the account id of the current message has been identified
Identified ==
    /\ mode = "flow" /\ msg_i >= 1
    /\ IF workflow = "anomalies" THEN route # "" ELSE pc \in {"loop", "done"}

\* C8: in every workflow the account id is the one the Account Identifier
\* finds in the subject, and the one it finds in the body only when the
\* subject holds none.
C8_SubjectFirst ==
    Identified =>
        LET from_subject == AccountIdOf(email_data.subject)
        IN  active_account_id =
                IF from_subject # "" THEN from_subject
                ELSE AccountIdOf(email_data.bodyText)

----------------------------------------------------------------------------
(* Claims about the stop flag                                              *)

\* the message that was begun before the stop request is in flight in
\* run_alerts_workflow until its iteration ends: the only stop test of that
\* workflow is at the head of the loop (alerts_logic.py line 344)
AlertInFlight == workflow = "alerts" /\ pc = "fetch"

----------------------------------------------------------------------------
(* Claims about failures                                                   *)

AnomaliesDone == mode = "flow" /\ workflow = "anomalies" /\ pc = "done"

\* C18: nothing is fatal to the batch: a failure while extracting facts or
\* drafting for one email never stops the run, so that a run that was not
\* asked to stop ends only after the last message of the fetched list, and
\* nothing but the setup before the first message raises.
C18_NothingIsFatal ==
    (AnomaliesDone /\ ~stop_flag) =>
        /\ msg_i = messages
        /\ outcome = "raised" => msg_i = 0

\* a token of the text of a block
Has(item, label) == \E k \in 1..Len(item.text_block) : item.text_block[k] = label

\* C19: deduplicate_usage_types never raises, whatever the blocks: a
\* missing Region, Usage Type or Impact Contribution line degrades to '',
\* '' and 0.0, and so does an amount after "Impact Contribution: $" that is
\* not a decimal number.
C19_DedupNeverRaises ==
    (mode = "dedup" /\ pc # "call") =>
        /\ ~dedup_out.raised
        /\ \A k \in 1..Len(split_results) :
              LET item == split_results[k]
              IN  /\ ~Has(item, REG) => Region(item) = <<>>
                  /\ ~Has(item, USG) => UsageType(item) = <<>>
                  /\ ~Has(item, IMP) =>
                        ImpactValue(item) = [error |-> FALSE, num |-> 0, den |-> 1]

----------------------------------------------------------------------------
(* Claims about the processing queue                                       *)

\* an account id as a token of the model: a string of exactly 12 digits
\* ("other" stands for the 12-digit strings that are no token of the model)
TwelveDigits(id) ==
    \/ id = "other"
    \/ /\ Len(TokChars(id)) = IdWidth
       /\ \A k \in 1..Len(TokChars(id)) :
             TokChars(id)[k] \in {"0", "1", "2", "3", "4", "5", "6", "7", "8", "9"}

Queued == mode = "flow" /\ workflow = "anomalies" /\ pc = "draft"

\* C20: every block that run_anomalies_workflow places on the processing
\* queue, on the reseller route and on the standard route alike, has an
\* account_id that is a string of exactly 12 digits.
C20_QueuedAccountIds ==
    Queued => \A k \in 1..Len(processing_queue) :
                 TwelveDigits(processing_queue[k].account_id)

\* C29: a message receives the label only after every block queued for it
\* has been handed to the drafting step; when a stop is requested while
\* blocks of the message are unprocessed, the message stays unlabelled.
C29_LabelAfterAllBlocks ==
    (mode = "flow" /\ workflow = "anomalies" /\ msg_i \in labelled) =>
        idx > Len(processing_queue)

----------------------------------------------------------------------------
(* Claims about the tracking ledgers                                       *)

\* the key of the anomaly is the key of a row of the ledger
KeyIn(file, data) ==
    \E i \in 1..Len(file) : \A c \in KeyColumns : file[i][c] = data[c]

\* C25: export_anomaly has three outcomes: daily_duplicate, nothing
\* written, when the key is in the daily ledger; else master_duplicate,
\* nothing written, when the key is in the master ledger and force_master is
\* false; else success, the same row appended to both ledgers; the amount
\* plays no part.  Stated of the calls that run alone, whose ledgers before
\* the call are the ones they loaded.
C25_ThreeOutcomes ==
    mode = "export" =>
        \A t \in ExportThreads :
            (calls[t].pc = "done" /\ calls[t].solo) =>
                LET c == calls[t]
                    daily0 == to_excel(c.daily_df)
                    master0 == to_excel(c.master_df)
                IN  IF KeyIn(daily0, c.data)
                    THEN /\ c.result = "daily_duplicate"
                         /\ daily_file = daily0 /\ master_file = master0
                    ELSE IF KeyIn(master0, c.data) /\ ~c.force
                    THEN /\ c.result = "master_duplicate"
                         /\ daily_file = daily0 /\ master_file = master0
                    ELSE /\ c.result = "success"
                         /\ \E now \in 0..MaxExports :
                               /\ daily_file = Append(daily0, NewRow(now, c.data))
                               /\ master_file = Append(master0, NewRow(now, c.data))

\* a key without an empty part
Complete(r) == \A c \in KeyColumns : r[c] # ""

\* C26: under any interleaving of export requests the daily ledger never
\* holds two rows with the same key, and two overlapping calls for the same
\* key never both return success.  Stated of the keys without an empty part,
\* which check_duplicate recognises.
C26_DailyStaysDeduplicated ==
    mode = "export" =>
        /\ \A i, j \in 1..Len(daily_file) :
              (i # j /\ Complete(daily_file[i])) =>
                  \E c \in KeyColumns : daily_file[i][c] # daily_file[j][c]
        /\ \A t, u \in ExportThreads :
              (/\ t # u
               /\ Complete(calls[t].data)
               /\ calls[t].pc = "done" /\ calls[t].result = "success"
               /\ calls[u].pc = "done" /\ calls[u].result = "success") =>
                  \E c \in KeyColumns : calls[t].data[c] # calls[u].data[c]

----------------------------------------------------------------------------
(* Claims about the job manager                                            *)

AliveThreads == {j \in Starts : threads[j].state = "alive"}

\* C27: at most one job thread is alive at any time; start_job called while
\* a job thread is alive returns busy, starts nothing and leaves the active
\* context; it starts a new job only when no job thread is alive.
C27_OneJobAtATime ==
    /\ [](mode = "jobs" => Cardinality(AliveThreads) <= 1)
    /\ [][\A r \in Starts :
            (mode = "jobs" /\ starts[r].pc = "locked" /\ starts'[r].pc # "locked") =>
                IF AliveThreads # {}
                THEN /\ starts'[r].ret = "busy"
                     /\ active_context' = active_context
                     /\ thread' = thread
                     /\ threads' = threads
                ELSE /\ starts'[r].pc = "context"
                     /\ active_context' = r]_vars
    /\ [][\A j \in Starts :
            (mode = "jobs" /\ ~is_alive(j) /\ threads'[j].state = "alive") =>
                AliveThreads = {}]_vars

\* the second request found the first job alive and was refused; the third
\* came after its end and started a job
C27_Witness ==
    /\ mode = "jobs"
    /\ starts[2].ret = "busy"
    /\ starts[3].ret = "started"
    /\ threads[1].state = "dead"
    /\ threads[3].state = "alive"

\* the messages of a list other than the log lines
RECURSIVE NotLog(_)
NotLog(q) ==
    IF q = <<>> THEN <<>>
    ELSE IF Head(q) = "log" THEN NotLog(Tail(q)) ELSE <<Head(q)>> \o NotLog(Tail(q))

\* the stream is attached to a context whose job thread has finished
Finished(s) ==
    /\ mode = "jobs"
    /\ streams[s].pc = "wait"
    /\ threads[streams[s].ctx].state = "dead"

----------------------------------------------------------------------------
(* Claims about the roster                                                 *)

\* a reload that read the sheet has returned
ReloadDone == mode = "roster" /\ pc = "returned" /\ count.kind = "int" /\ df # <<>>

\* the accounts of the sheet as the reload read it: the keys of its rows
\* that are not skipped
AccountsOf(rows) == {AccId(rows[k].Account) : k \in 1..Len(rows)} \ {<<>>}

\* C15: a reload is a full replace: once load_account_map has returned, the
\* account map holds exactly the accounts of the sheet as that reload read
\* it, so that an account that is no longer in the sheet is no longer
\* resolvable.
C15_ReloadReplaces == ReloadDone => DOMAIN account_map = AccountsOf(df)

\* the value of the global that the reload in flight ends with
MapAfter == LoadRows(map_before, df)

\* a lookup that ran after the current reload began
LookupDuringReload ==
    mode = "roster" /\ reloads > 0 /\ observed # <<>> /\ observed.reload = reloads

\* C16: a lookup that runs concurrently with a reload observes either the
\* complete roster from before the reload or the complete roster from after
\* it, never a partially loaded mixture of the two.
C16_LookupSeesBeforeOrAfter ==
    LookupDuringReload =>
        /\ observed.roster \in {map_before, MapAfter}
        /\ observed.account_info \in {Get(map_before, observed.id, EmptyDict),
                                      Get(MapAfter, observed.id, EmptyDict)}

====
